---- MODULE Spec2Model ----
(***************************************************************************)
(* herox: the OS-API actor (native_api/windows_backend.rs and              *)
(* native_api/x11_backend.rs), the window facades that call it             *)
(* (window/windows_backend.rs, window/x11_backend.rs) and the Window type  *)
(* of window.rs with its two compiled implementations: the Windows one of  *)
(* window/windows.rs and UnsupportedOSWindow.                              *)
(*                                                                         *)
(* Threads are the callers 1..NumCallers and the worker.  Every step of a  *)
(* thread between two points where another thread can observe it is one   *)
(* action.  Payloads (handles, titles, rectangles, rasters) are left out:  *)
(* a response is its enum variant, the command whose error it carries and  *)
(* the request it was computed for.                                        *)
(*                                                                         *)
(* Two further specifications share the module.  SpecCapture is the inside *)
(* of one CaptureWindowImage command (capture_window_image_internal and    *)
(* its RAII owners, capture_window_image of the X11 backend) followed by   *)
(* AsyncCaptureImage::compute and Image::from.  SpecImage is the image     *)
(* engine of image.rs: its compute functions applied to bounded rasters    *)
(* and features.  SpecRegion is the clustering and the colour counting of  *)
(* image.rs over sparse rasters, SpecMatch its tolerance rule and mismatch *)
(* budget over strips.  SpecManual is the two capture routines that pair   *)
(* their acquire and release calls by hand (window/windows_native.rs,      *)
(* window/windows.rs).  SpecFair is Spec with weak fairness of every       *)
(* thread's steps.  SpecCount is IMAGE_COUNT of image.rs under creations   *)
(* on several threads, clones and drops.  SpecListener is the              *)
(* GlobalListener of global_listener.rs with its two threads, SpecMouse    *)
(* the tasks of mouse.rs on one Mouse beside the lock-free mouse functions *)
(* of the Herox object of lib.rs, SpecHumanlike the two humanlike moves.   *)
(* Each specification leaves the variables of the others at their initial  *)
(* values.                                                                 *)
(***************************************************************************)
EXTENDS Integers, Sequences, FiniteSets

\* ---------------------------------------------------------------- bounds
NumCallers == 2
MaxRequests == 2

Callers == 1..NumCallers

\* ------------------------------------------------------------- vocabulary
\* The build of window.rs (cfg(target_os)) or the facade module in use.
\*   "windows"         window.rs on Windows: WindowsWindow of window/windows.rs
\*   "unsupported"     window.rs elsewhere: UnsupportedOSWindow
\*   "windows_backend" window/windows_backend.rs over native_api/windows_backend.rs
\*   "x11_backend"     window/x11_backend.rs over native_api/x11_backend.rs
Facades == {"windows", "unsupported", "windows_backend", "x11_backend"}

ActorFacades == {"windows_backend", "x11_backend"}

\* The caller-facing entry points of NativeWindow / Window.  "rect" stands for
\* x, y, width and height: in every implementation the four are one code path
\* (GetWindowRect, or self.rect()) followed by a projection of the rectangle,
\* and the rectangle is not part of this model.
EntryPoints == {"all", "title", "rect", "is_focused", "capture_image"}

\* A direct call of send_command_to_api_thread(Shutdown).
RawOps == {"shutdown"}

Commands == {"EnumerateWindows", "GetWindowTitle", "GetWindowRect",
             "IsWindowFocused", "CaptureWindowImage", "Shutdown"}

NoRequest == [caller |-> 0, cmd |-> "none", ticket |-> 0]

NoResponse == [variant |-> "none", err |-> "none", ticket |-> 0]

ClosedChannel == [open |-> FALSE, msgs |-> <<>>]

VARIABLES
  facade,           \* which build / facade module the callers go through
  once,             \* INIT_*_API_THREAD: "incomplete", "running", "complete"
  senderCell,       \* *_API_SENDER: TRUE once the OnceCell holds the Sender
  channelsCreated,  \* number of request channels created by channel()
  spawnCount,       \* number of thread::spawn calls of the worker main
  receiverAlive,    \* the worker still owns the Receiver of the request channel
  queue,            \* the request channel: requests sent and not yet received
  wpc,              \* the worker's position
  current,          \* the request the worker received last
  response,         \* the response the worker computed for current
  served,           \* number of requests the worker has received
  replied,          \* number of response_sender.send calls the worker has made
  discarded,        \* number of those sends that failed and were dropped by .ok()
  sent,             \* number of requests put on the request channel
  issued,           \* number of entry-point calls begun (bounded by MaxRequests)
  pc,               \* each caller's position
  op,               \* each caller's entry point in progress (or last finished)
  myTicket,         \* the position of the caller's request in the send order (0: not sent)
  chan,             \* each caller's private reply channel
  result            \* each caller's return value of its last finished call

actorVars == <<once, senderCell, channelsCreated, spawnCount, receiverAlive, queue,
               wpc, current, response, served, replied, discarded, sent>>

callerVars == <<issued, pc, op, myTicket, chan, result>>

vars == <<facade, actorVars, callerVars>>

VARIABLES
  capBackend,       \* the backend whose capture runs: "windows" or "x11"
  cpc,              \* position inside the capture command ("idle": worker at recv)
  win,              \* the captured window as the OS sees it now
  owners,           \* the RAII locals in scope: "unbound", "null" or "valid" handle
  live,             \* the kinds of OS resource of which a handle is held
  acquired,         \* per resource, successful acquisitions in this capture
  released,         \* per resource, release calls on a valid handle in this capture
  capResult,        \* what the capture function returned
  failStep,         \* the step of this capture that failed ("none": none so far)
  osError,          \* the code or message the OS supplied at the failing step
  prevFailure,      \* step and variant of the failed capture before this one
  disturbed,        \* window was minimized/destroyed between geometry lookup and copy
  capSize,          \* width and height the capture computed from the window's rectangle
  imageCount,       \* IMAGE_COUNT
  images,           \* Image objects alive
  computeOutcome    \* how AsyncCaptureImage::compute ended last

captureVars == <<capBackend, cpc, win, owners, live, acquired, released, capResult,
                 failStep, osError, prevFailure, disturbed, capSize, imageCount, images,
                 computeOutcome>>

VARIABLES
  raster,           \* the RgbaImage the engine's tasks were given
  feature,          \* the Feature the caller holds
  featureOrigin,    \* where feature came from: the caller, or get_feature of a rectangle
  call,             \* the task computed last, with its inputs
  ret               \* what its compute returned

engineVars == <<raster, feature, featureOrigin, call, ret>>

VARIABLES
  creator,          \* per thread, its position inside Image::from
  lastCreation,     \* how the Image::from that ended last went
  process           \* "running", or "aborted" by a panic that was not caught

countVars == <<creator, lastCreation, process>>

VARIABLES
  listenerBuild,    \* the global_listener backend compiled in: "windows" or "unsupported"
  listener,         \* the GlobalListener object: "none", "constructing", "active", "failed", "closed"
  actionTx,         \* the object's action_tx is Some (its Sender is alive)
  osTx,             \* where the clone os_listener_tx is: "none", "thread", "cell" (ACTION_TX), "dropped"
  osThread,         \* the OS listener thread: "not_started", "start", "hook", "pump", "returned"
  initMsg,          \* what the OS listener thread sent on init_tx
  dispatcher,       \* the dispatcher thread: "not_started", "recv", "exited"
  actionQueue,      \* GlobalInputActions sent and not yet received
  subscribers,      \* ids in ListenerState.subscribers
  nextId,           \* ListenerState.next_id
  keys,             \* key events the hook procedure has handled
  lateDeliveries    \* subscriber calls for events sent after close had returned

listenerVars == <<listenerBuild, listener, actionTx, osTx, osThread, initMsg, dispatcher,
                  actionQueue, subscribers, nextId, keys, lateDeliveries>>

VARIABLES
  holder,           \* the task whose MutexGuard of Arc<Mutex<MouseSync>> is alive; 0: none
  task,             \* per mouse task: kind, position in compute, result, whether it acted
  pointer,          \* the pointer's x coordinate as enigo reports it
  hl,               \* the humanlike_move_to call under way: its arguments, its caller's,
                    \* its position, mouse_position and the loop's t
  hx                \* the thread that calls the Herox object's mouse functions: how its
                    \* last call ended and, inside humanlike_move_mouse, the same as hl

mouseVars == <<holder, task, pointer, hl, hx>>

\* IMAGE_COUNT under concurrent creations, the listener and the mouse.
deviceVars == <<countVars, listenerVars, mouseVars>>

\* The variables of the specifications other than Spec.
nonActorVars == <<captureVars, engineVars, deviceVars>>

allVars == <<vars, captureVars, engineVars, deviceVars>>

\* ------------------------------------------------ actor: initial state
\* No caller has called anything: the state the other specifications keep
\* the actor in.
ActorIdle ==
  /\ facade = "unsupported"
  /\ once = "incomplete"
  /\ senderCell = FALSE
  /\ channelsCreated = 0
  /\ spawnCount = 0
  /\ receiverAlive = FALSE
  /\ queue = <<>>
  /\ wpc = "not_spawned"
  /\ current = NoRequest
  /\ response = NoResponse
  /\ served = 0
  /\ replied = 0
  /\ discarded = 0
  /\ sent = 0
  /\ issued = 0
  /\ pc = [c \in Callers |-> "idle"]
  /\ op = [c \in Callers |-> "none"]
  /\ myTicket = [c \in Callers |-> 0]
  /\ chan = [c \in Callers |-> ClosedChannel]
  /\ result = [c \in Callers |-> "none"]

\* ---------------------------------------------- capture: initial state
\* The three RAII owners of native_api/windows_backend.rs, by the resource held.
Resources == {"window_dc", "memory_dc", "bitmap"}

NoCapResult == [kind |-> "none", variant |-> "none", payload |-> "none"]

NoFailure == [step |-> "none", variant |-> "none"]

NoSize == [width |-> 0, height |-> 0]

\* No capture in progress, no Image alive: the state before the first capture.
CaptureIdle ==
  /\ cpc = "idle"
  /\ win = "normal"
  /\ owners = [r \in Resources |-> "unbound"]
  /\ live = {}
  /\ acquired = [r \in Resources |-> 0]
  /\ released = [r \in Resources |-> 0]
  /\ capResult = NoCapResult
  /\ failStep = "none"
  /\ osError = "none"
  /\ prevFailure = NoFailure
  /\ disturbed = FALSE
  /\ capSize = NoSize
  /\ imageCount = 0
  /\ images = 0
  /\ computeOutcome = "none"

\* ----------------------------------------------- engine: initial state
NoCall == [task |-> "none"]

NoReturn == [status |-> "none"]

EmptyRaster == [width |-> 0, height |-> 0, data |-> <<>>]

CallerMade == [kind |-> "caller"]

\* No task computed yet and an empty Feature in the caller's hands.
EngineIdle ==
  /\ feature = <<>>
  /\ featureOrigin = CallerMade
  /\ call = NoCall
  /\ ret = NoReturn

\* ------------------------------------------------ counter: initial state
NumCreators == 2

\* The threads that run Image::from (the pool that computes the tasks).
Creators == 1..NumCreators

NoCreation == [outcome |-> "none", alive |-> 0, drift |-> 0]

\* No Image::from under way.
CountIdle ==
  /\ creator = [t \in Creators |-> "idle"]
  /\ lastCreation = NoCreation
  /\ process = "running"

\* No GlobalListener constructed yet.
ListenerIdle ==
  /\ listenerBuild = "unsupported"
  /\ listener = "none"
  /\ actionTx = FALSE
  /\ osTx = "none"
  /\ osThread = "not_started"
  /\ initMsg = "none"
  /\ dispatcher = "not_started"
  /\ actionQueue = <<>>
  /\ subscribers = {}
  /\ nextId = 0
  /\ keys = 0
  /\ lateDeliveries = 0

NumTasks == 2

MouseTasks == 1..NumTasks

NoTask == [kind |-> "none", pc |-> "idle", result |-> "none", acted |-> FALSE,
           sawHeld |-> FALSE]

\* The calls of itself that are followed from one call of humanlike_move_to.
MaxDepth == 2

NoHumanlike == [target |-> 0, duration |-> 0, recursive |-> FALSE, callerDuration |-> 0,
                callerPointer |-> 0, at |-> "none", start |-> 0, t |-> 0, depth |-> 0]

NoHerox == [at |-> "idle", target |-> 0, duration |-> 0, recursive |-> FALSE,
            callerDuration |-> 0, callerPointer |-> 0, start |-> 0, t |-> 0]

\* Mouse::new() and Herox::new(): the mutex is free, no task computed yet and
\* no function of Herox called.
MouseIdle ==
  /\ holder = 0
  /\ task = [t \in MouseTasks |-> NoTask]
  /\ pointer = 0
  /\ hl = NoHumanlike
  /\ hx = NoHerox

DeviceIdle == CountIdle /\ ListenerIdle /\ MouseIdle

\* ------------------------------------------------------- pure definitions
\* The command a facade method sends (window/x11_backend.rs, window/windows_backend.rs).
CommandOf(o) ==
  CASE o = "all" -> "EnumerateWindows"
    [] o = "title" -> "GetWindowTitle"
    [] o = "rect" -> "GetWindowRect"
    [] o = "is_focused" -> "IsWindowFocused"
    [] o = "capture_image" -> "CaptureWindowImage"
    [] o = "shutdown" -> "Shutdown"

\* The success variant the worker sends for a command.
SuccessVariant(cmd) ==
  CASE cmd = "EnumerateWindows" -> "WindowList"
    [] cmd = "GetWindowTitle" -> "WindowTitle"
    [] cmd = "GetWindowRect" -> "WindowRect"
    [] cmd = "IsWindowFocused" -> "WindowFocused"
    [] cmd = "CaptureWindowImage" -> "WindowImage"
    [] cmd = "Shutdown" -> "Acknowledgement"

\* The backend behind an actor facade.
BackendOf(f) == IF f = "x11_backend" THEN "x11" ELSE "windows"

\* Commands whose match arm has an error branch.  The Windows worker answers
\* GetWindowTitle (len == 0 gives the empty title) and IsWindowFocused without
\* one; the X11 worker has an Err arm for every command but Shutdown.
Fallible(backend, cmd) ==
  IF backend = "x11"
    THEN cmd # "Shutdown"
    ELSE cmd \in {"EnumerateWindows", "GetWindowRect", "CaptureWindowImage"}

\* The bounds of i16, the type of translated.dst_x and of `geom.width as i16`.
I16Max == 32767

I16Min == -32768

\* `v as i16` for a u16 v: the low 16 bits, read as two's complement.
AsI16(v) == LET m == v % 65536 IN IF m > I16Max THEN m - 65536 ELSE m

\* An i16 addition that leaves the range: a panic when the build has overflow
\* checks (the debug profile), a wrapped value when it has none (release).
AddI16Overflows(a, b) == a + b > I16Max \/ a + b < I16Min

\* i32::MAX; width and height of the Windows captures are i32.
I32Max == 2147483647

\* x + y in i32: the wrapped sum, and whether the true sum left the range.
AddI32(x, y) ==
  IF x >= 0 /\ y >= 0 /\ x > I32Max - y
    THEN [value |-> (x - I32Max - 1) + (y - I32Max - 1), overflow |-> TRUE]
  ELSE IF x < 0 /\ y < 0 /\ x < (-I32Max - 1) - y
    THEN [value |-> (x + I32Max + 1) + (y + I32Max + 1), overflow |-> TRUE]
    ELSE [value |-> x + y, overflow |-> FALSE]

\* a * b in i32 for b >= 0, by doubling: the wrapped product, and whether the
\* true product left the range.
RECURSIVE MulI32(_, _)
MulI32(a, b) ==
  IF b = 0 THEN [value |-> 0, overflow |-> FALSE]
  ELSE LET half == MulI32(a, b \div 2)
           dbl == AddI32(half.value, half.value)
           sum == IF b % 2 = 1 THEN AddI32(dbl.value, a)
                  ELSE [value |-> dbl.value, overflow |-> FALSE]
       IN [value |-> sum.value,
           overflow |-> half.overflow \/ dbl.overflow \/ sum.overflow]

\* vec![0; (width * height * 4) as usize] with width and height in i32.  An
\* overflowing multiplication panics when the build has overflow checks and
\* wraps when it has none; a wrapped product below zero becomes a length
\* above isize::MAX, and vec! panics with "capacity overflow"; a wrapped
\* product from zero up gives a buffer shorter than width * height * 4 bytes.
BufferAlloc(width, height, overflowChecks) ==
  LET wh == MulI32(width, height)
      bytes == MulI32(wh.value, 4)
      overflow == wh.overflow \/ bytes.overflow
  IN IF (overflow /\ overflowChecks) \/ bytes.value < 0 THEN "panic"
     ELSE IF overflow THEN "short"
     ELSE "exact"

\* Window geometries the OS can report.  On X11 GetGeometry's width and height
\* are u16 and TranslateCoordinates' dst_x and dst_y are i16; on Windows the
\* RECT holds four i32.  A window on screen, one parked far to the right of
\* the screen, and two whose width * height * 4 is above i32::MAX.
WindowGeometries ==
  { [dst_x |-> 100, dst_y |-> 50, width |-> 800, height |-> 600],
    [dst_x |-> 30000, dst_y |-> 50, width |-> 3000, height |-> 600],
    [dst_x |-> 0, dst_y |-> 0, width |-> 32768, height |-> 32768],
    [dst_x |-> 0, dst_y |-> 0, width |-> 23171, height |-> 23171] }

\* get_window_rect (X11): right = dst_x + width as i16, bottom = dst_y + height
\* as i16, both computed in i16.
RectOverflows(g) ==
  \/ AddI16Overflows(g.dst_x, AsI16(g.width))
  \/ AddI16Overflows(g.dst_y, AsI16(g.height))

\* What the native part of a command's match arm comes to: "ok", "fail" (the
\* arm answers with the command's Error) or "panic".  ok says whether the OS
\* calls of the arm succeed.  On X11 the arithmetic of get_window_rect panics
\* when it overflows in a build with overflow checks.  On Windows the capture
\* panics in the allocation of its buffer, or its from_raw finds the buffer
\* short and the arm answers Error(CaptureWindowImage(InvalidBitmap)).
NativeOutcome(backend, cmd, ok, g, overflowChecks) ==
  IF ~ok THEN "fail"
  ELSE IF backend = "x11" /\ cmd = "GetWindowRect" /\ RectOverflows(g) /\ overflowChecks
    THEN "panic"
  ELSE IF backend = "windows" /\ cmd = "CaptureWindowImage"
    THEN CASE BufferAlloc(g.width, g.height, overflowChecks) = "panic" -> "panic"
           [] BufferAlloc(g.width, g.height, overflowChecks) = "short" -> "fail"
           [] OTHER -> "ok"
    ELSE "ok"

\* C9 mutant: a failed native call is reported with the error of GetWindowRect
\* whatever the command was (a copy-and-paste slip between the match arms).
WorkerResponse_WrongError(backend, cmd, ok) ==
  IF ok \/ cmd = "Shutdown"
    THEN [variant |-> SuccessVariant(cmd), err |-> "none"]
    ELSE [variant |-> "Error", err |-> "GetWindowRect"]

\* The match arms of windows_api_thread_main / x11_api_thread_main: the response
\* for a command whose native calls succeeded (ok) or failed.
WorkerResponse(backend, cmd, ok) ==
  IF ok \/ ~Fallible(backend, cmd)
    THEN [variant |-> SuccessVariant(cmd), err |-> "none"]
    ELSE [variant |-> "Error", err |-> cmd]

\* The match of a facade method on the worker's response.  Every method accepts
\* its success variant; the methods with an Error arm accept the Error of their
\* own command; everything else is the "_ =>" arm, UnexpectedResponse.  In
\* window/windows_backend.rs title and is_focused have no Error arm.
FacadeHasErrorArm(f, o) ==
  IF f = "windows_backend" THEN o \notin {"title", "is_focused"} ELSE TRUE

FacadeResult(f, o, resp) ==
  IF o \in RawOps
    THEN resp.variant
    ELSE IF resp.variant = SuccessVariant(CommandOf(o))
      THEN "Ok"
      ELSE IF resp.variant = "Error" /\ resp.err = CommandOf(o) /\ FacadeHasErrorArm(f, o)
        THEN "CommandError"
        ELSE "UnexpectedResponse"

\* WindowsWindow of window/windows.rs and Window::all of window.rs (Windows
\* build): the result of a method whose native calls succeeded (ok) or failed.
\* title, is_focused and all have no failure branch.  capture_image allocates
\* its buffer after the OS calls but GetDIBits: the allocation can panic, and
\* from_raw answers None for a buffer that is short (InvalidBitmap).
DirectResult(o, ok, g, overflowChecks) ==
  IF o \in {"all", "title", "is_focused"} THEN "Ok"
  ELSE IF ~ok THEN "ApiError"
  ELSE IF o = "capture_image"
    THEN CASE BufferAlloc(g.width, g.height, overflowChecks) = "panic" -> "panic"
           [] BufferAlloc(g.width, g.height, overflowChecks) = "short" -> "InvalidBitmap"
           [] OTHER -> "Ok"
    ELSE "Ok"

\* C8 mutant: the unsupported build forwards to the actor instead of answering.
EntryRoute_UnsupportedToActor(f, o) ==
  IF f = "windows" THEN "direct" ELSE "actor"

\* Where an entry point is served: by send_command_to_api_thread ("actor"), by
\* native calls on the calling thread ("direct", window/windows.rs and the
\* Windows arm of Window::all) or by the fixed error of UnsupportedOSWindow.
EntryRoute(f, o) ==
  IF f \in ActorFacades THEN "actor"
  ELSE IF f = "windows" THEN "direct"
  ELSE "unsupported"

\* The entry points a caller can use on a facade; Shutdown only exists in the
\* command enum of the actor modules.
OpsOf(f) == IF f \in ActorFacades THEN EntryPoints \cup RawOps ELSE EntryPoints

\* C1 mutant: the guard reduced to a check of "not yet complete", so a second
\* caller arriving while the first is still inside the closure runs it too.
OnceMayRun_CheckOnly(state) == state # "complete"

\* Once::call_once: the closure is run by the caller that finds the Once
\* incomplete; callers that find it running block until it is complete.
OnceMayRun(state) == state = "incomplete"

\* C2 mutant: one reply channel shared by the callers, so the reply lands on
\* the next caller's receiver.
ReplyTarget_Shared(req) == (req.caller % NumCallers) + 1

\* response_sender.send(..): the Sender that arrived with the command.
ReplyTarget(req) == req.caller

\* C7 mutant: the worker takes the newest request first.
DequeueIndex_Newest(q) == Len(q)

\* receiver.recv(): the oldest message of the channel.
DequeueIndex(q) == 1

RemoveAt(q, i) == [j \in 1..(Len(q) - 1) |-> IF j < i THEN q[j] ELSE q[j + 1]]

\* C5 mutant: the Shutdown arm without its break.
AfterReply_NoBreak(cmd, delivered) == "recv"

\* Where the worker goes after response_sender.send(..).ok(): the result of the
\* send is dropped; only the Shutdown arm breaks out of the loop.
AfterReply(cmd, delivered) == IF cmd = "Shutdown" THEN "exiting" ELSE "recv"

\* The positions of a worker thread that panicked: unwinding out of a command
\* arm, or ended.
Panicked == {"panicked_startup", "unwinding", "panicked_native"}

\* The threads inside a native window/display call.
Worker == 0

InNative ==
  {c \in Callers : pc[c] = "native"} \cup (IF wpc \in {"init", "native"} THEN {Worker} ELSE {})

\* ------------------------------------------------------------------ Init
Init ==
  /\ facade \in Facades
  /\ once = "incomplete"
  /\ senderCell = FALSE
  /\ channelsCreated = 0
  /\ spawnCount = 0
  /\ receiverAlive = FALSE
  /\ queue = <<>>
  /\ wpc = "not_spawned"
  /\ current = NoRequest
  /\ response = NoResponse
  /\ served = 0
  /\ replied = 0
  /\ discarded = 0
  /\ sent = 0
  /\ issued = 0
  /\ pc = [c \in Callers |-> "idle"]
  /\ op = [c \in Callers |-> "none"]
  /\ myTicket = [c \in Callers |-> 0]
  /\ chan = [c \in Callers |-> ClosedChannel]
  /\ result = [c \in Callers |-> "none"]
  /\ capBackend = "windows"
  /\ CaptureIdle
  /\ raster = EmptyRaster
  /\ EngineIdle
  /\ DeviceIdle

\* ------------------------------------------------------- caller actions
\* A caller enters an entry point: Window::all, a NativeWindow method, or
\* send_command_to_api_thread(Shutdown).  UnsupportedOSWindow (and the
\* non-Windows arm of Window::all) return Err(UnsupportedPlatform) at once.
BeginCall(c) ==
  /\ pc[c] \in {"idle", "done"}
  /\ issued < MaxRequests
  /\ \E o \in OpsOf(facade) :
       /\ op' = [op EXCEPT ![c] = o]
       /\ LET route == EntryRoute(facade, o) IN
            /\ pc' = [pc EXCEPT ![c] =
                       CASE route = "actor" -> "call_once"
                         [] route = "direct" -> "native"
                         [] OTHER -> "done"]
            /\ result' = [result EXCEPT ![c] =
                       IF route = "unsupported" THEN "UnsupportedPlatform" ELSE "none"]
  /\ issued' = issued + 1
  /\ myTicket' = [myTicket EXCEPT ![c] = 0]
  /\ UNCHANGED nonActorVars
  /\ UNCHANGED <<facade, actorVars, chan>>

\* window/windows.rs, Window::all (Windows): the native calls run on the
\* calling thread and their outcome becomes the method's result; a panic
\* unwinds the calling thread, which returns nothing.
DirectNative(c) ==
  /\ pc[c] = "native"
  /\ \E ok \in BOOLEAN, g \in WindowGeometries, overflowChecks \in BOOLEAN :
       LET res == DirectResult(op[c], ok, g, overflowChecks) IN
         IF res = "panic"
           THEN /\ pc' = [pc EXCEPT ![c] = "panicked_native"]
                /\ UNCHANGED result
           ELSE /\ pc' = [pc EXCEPT ![c] = "done"]
                /\ result' = [result EXCEPT ![c] = res]
  /\ UNCHANGED nonActorVars
  /\ UNCHANGED <<facade, actorVars, issued, op, myTicket, chan>>

\* call_once, the Once found incomplete: this caller will run the closure.
OnceEnter(c) ==
  /\ pc[c] = "call_once"
  /\ OnceMayRun(once)
  /\ once' = "running"
  /\ pc' = [pc EXCEPT ![c] = "init_closure"]
  /\ UNCHANGED nonActorVars
  /\ UNCHANGED <<facade, senderCell, channelsCreated, spawnCount, receiverAlive, queue,
                 wpc, current, response, served, replied, discarded, sent,
                 issued, op, myTicket, chan, result>>

\* The closure of call_once: channel(), SENDER.set(sender).unwrap(),
\* thread::spawn of the worker main.  set() on a cell that is already full is
\* an Err, and the unwrap panics inside call_once, which poisons the Once.
OnceClosure(c) ==
  /\ pc[c] = "init_closure"
  /\ channelsCreated' = channelsCreated + 1
  /\ IF senderCell
       THEN /\ once' = "poisoned"
            /\ pc' = [pc EXCEPT ![c] = "panicked"]
            /\ UNCHANGED <<senderCell, spawnCount, receiverAlive, wpc>>
       ELSE /\ senderCell' = TRUE
            /\ receiverAlive' = TRUE
            /\ spawnCount' = spawnCount + 1
            /\ wpc' = IF BackendOf(facade) = "x11" THEN "init" ELSE "recv"
            /\ once' = "complete"
            /\ pc' = [pc EXCEPT ![c] = "send"]
  /\ UNCHANGED nonActorVars
  /\ UNCHANGED <<facade, queue, current, response, served, replied, discarded, sent,
                 issued, op, myTicket, chan, result>>

\* call_once, the Once found complete (callers that find it running block
\* until then); a poisoned Once panics the caller.
OncePass(c) ==
  /\ pc[c] = "call_once"
  /\ once \in {"complete", "poisoned"}
  /\ pc' = [pc EXCEPT ![c] = IF once = "complete" THEN "send" ELSE "panicked"]
  /\ UNCHANGED nonActorVars
  /\ UNCHANGED <<facade, actorVars, issued, op, myTicket, chan, result>>

\* channel() for the reply, then sender.send((command, response_sender)):
\* Err(Send) when the worker's Receiver is gone.
SendCommand(c) ==
  /\ pc[c] = "send"
  /\ IF receiverAlive
       THEN /\ sent' = sent + 1
            /\ myTicket' = [myTicket EXCEPT ![c] = sent + 1]
            /\ queue' = Append(queue, [caller |-> c, cmd |-> CommandOf(op[c]),
                                       ticket |-> sent + 1])
            /\ chan' = [chan EXCEPT ![c] = [open |-> TRUE, msgs |-> <<>>]]
            /\ pc' = [pc EXCEPT ![c] = "wait"]
            /\ UNCHANGED result
       ELSE /\ result' = [result EXCEPT ![c] = "ApiError_Send"]
            /\ pc' = [pc EXCEPT ![c] = "done"]
            /\ UNCHANGED <<sent, myTicket, queue, chan>>
  /\ UNCHANGED nonActorVars
  /\ UNCHANGED <<facade, once, senderCell, channelsCreated, spawnCount, receiverAlive,
                 wpc, current, response, served, replied, discarded, issued, op>>

\* Keeps the response_sender of every request that was sent, as a sender
\* stored outside the worker's loop would.
SenderHeld_Kept(c) == myTicket[c] > 0

\* The response_sender of c's request still exists: in the message on the
\* request channel, or in the worker's loop body until the iteration ends.
SenderHeld(c) ==
  \/ \E i \in 1..Len(queue) : queue[i].caller = c /\ queue[i].ticket = myTicket[c]
  \/ /\ wpc \in {"native", "reply"}
     /\ current.caller = c
     /\ current.ticket = myTicket[c]

\* response_receiver.recv(): the response, matched by the facade method, or
\* Err(Receive) once the response_sender was dropped without a send.
ReceiveResponse(c) ==
  /\ pc[c] = "wait"
  /\ IF chan[c].msgs # <<>>
       THEN result' = [result EXCEPT ![c] = FacadeResult(facade, op[c], Head(chan[c].msgs))]
       ELSE /\ ~SenderHeld(c)
            /\ result' = [result EXCEPT ![c] = "ApiError_Receive"]
  /\ chan' = [chan EXCEPT ![c] = ClosedChannel]
  /\ pc' = [pc EXCEPT ![c] = "done"]
  /\ UNCHANGED nonActorVars
  /\ UNCHANGED <<facade, actorVars, issued, op, myTicket>>

\* ------------------------------------------------------- worker actions
\* x11_api_thread_main before its loop: x11rb::connect and the two
\* intern_atom round trips.  A failure panics the thread (panic! / unwrap);
\* the unwinding drops the Receiver and every request queued on it.
X11Startup ==
  /\ wpc = "init"
  /\ \E ok \in BOOLEAN :
       IF ok
         THEN /\ wpc' = "recv"
              /\ UNCHANGED <<receiverAlive, queue>>
         ELSE /\ wpc' = "panicked_startup"
              /\ receiverAlive' = FALSE
              /\ queue' = <<>>
  /\ UNCHANGED nonActorVars
  /\ UNCHANGED <<facade, once, senderCell, channelsCreated, spawnCount, current, response,
                 served, replied, discarded, sent, callerVars>>

Tagged(r, t) == [variant |-> r.variant, err |-> r.err, ticket |-> t]

\* while let Ok((command, response_sender)) = receiver.recv(): blocks while
\* the channel is empty.  The Shutdown arm makes no native call.
WorkerReceive ==
  /\ wpc = "recv"
  /\ queue # <<>>
  /\ LET i == DequeueIndex(queue)
         req == queue[i] IN
       /\ current' = req
       /\ queue' = RemoveAt(queue, i)
       /\ wpc' = IF req.cmd = "Shutdown" THEN "reply" ELSE "native"
       /\ response' = IF req.cmd = "Shutdown"
                        THEN Tagged(WorkerResponse(BackendOf(facade), req.cmd, TRUE), req.ticket)
                        ELSE NoResponse
  /\ served' = served + 1
  /\ UNCHANGED nonActorVars
  /\ UNCHANGED <<facade, once, senderCell, channelsCreated, spawnCount, receiverAlive,
                 replied, discarded, sent, callerVars>>

\* The native calls of the command's match arm, on the worker thread; they
\* succeed or fail, and the arm builds the response.  A panic in the arm
\* starts to unwind the thread: the locals of the loop body go first, so the
\* response_sender in hand is dropped while the Receiver still exists.
WorkerNative ==
  /\ wpc = "native"
  /\ \E ok \in BOOLEAN, g \in WindowGeometries, overflowChecks \in BOOLEAN :
       LET outcome == NativeOutcome(BackendOf(facade), current.cmd, ok, g, overflowChecks) IN
         IF outcome = "panic"
           THEN /\ wpc' = "unwinding"
                /\ UNCHANGED response
           ELSE /\ response' = Tagged(WorkerResponse(BackendOf(facade), current.cmd,
                                                     outcome = "ok"), current.ticket)
                /\ wpc' = "reply"
  /\ UNCHANGED nonActorVars
  /\ UNCHANGED <<facade, once, senderCell, channelsCreated, spawnCount, receiverAlive, queue,
                 current, served, replied, discarded, sent, callerVars>>

\* The unwinding reaches the frame of the thread main: the Receiver is
\* dropped and with it every request queued by then, those sent after the
\* panic included.
WorkerUnwind ==
  /\ wpc = "unwinding"
  /\ wpc' = "panicked_native"
  /\ receiverAlive' = FALSE
  /\ queue' = <<>>
  /\ UNCHANGED nonActorVars
  /\ UNCHANGED <<facade, once, senderCell, channelsCreated, spawnCount, current, response,
                 served, replied, discarded, sent, callerVars>>

\* response_sender.send(response).ok(): delivered if the caller's receiver
\* still exists, dropped otherwise; then the next iteration, or break.
WorkerReply ==
  /\ wpc = "reply"
  /\ LET t == ReplyTarget(current)
         delivered == chan[t].open IN
       /\ chan' = IF delivered
                    THEN [chan EXCEPT ![t].msgs = Append(@, response)]
                    ELSE chan
       /\ discarded' = IF delivered THEN discarded ELSE discarded + 1
       /\ wpc' = AfterReply(current.cmd, delivered)
  /\ replied' = replied + 1
  /\ UNCHANGED nonActorVars
  /\ UNCHANGED <<facade, once, senderCell, channelsCreated, spawnCount, receiverAlive, queue,
                 current, response, served, sent, issued, pc, op, myTicket, result>>

\* The worker main returns after the break: the Receiver is dropped and with
\* it every request still queued (and its response_sender).
WorkerExit ==
  /\ wpc = "exiting"
  /\ wpc' = "exited"
  /\ receiverAlive' = FALSE
  /\ queue' = <<>>
  /\ UNCHANGED nonActorVars
  /\ UNCHANGED <<facade, once, senderCell, channelsCreated, spawnCount, current, response,
                 served, replied, discarded, sent, callerVars>>

\* ------------------------------------------------------------------ Spec
Next ==
  \/ \E c \in Callers : BeginCall(c)
  \/ \E c \in Callers : DirectNative(c)
  \/ \E c \in Callers : OnceEnter(c)
  \/ \E c \in Callers : OnceClosure(c)
  \/ \E c \in Callers : OncePass(c)
  \/ \E c \in Callers : SendCommand(c)
  \/ \E c \in Callers : ReceiveResponse(c)
  \/ X11Startup
  \/ WorkerReceive
  \/ WorkerNative
  \/ WorkerUnwind
  \/ WorkerReply
  \/ WorkerExit

Spec == Init /\ [][Next]_vars

\* A step of caller c inside its call.  Beginning a call is the caller's
\* choice and no step of the call itself.
CallerStep(c) ==
  \/ DirectNative(c)
  \/ OnceEnter(c)
  \/ OnceClosure(c)
  \/ OncePass(c)
  \/ SendCommand(c)
  \/ ReceiveResponse(c)

\* A step of the worker thread.
WorkerStep ==
  \/ X11Startup
  \/ WorkerReceive
  \/ WorkerNative
  \/ WorkerUnwind
  \/ WorkerReply
  \/ WorkerExit

\* Spec with the scheduler's guarantee: a thread that can take a step is not
\* held back for ever (send and recv return once the other end of the channel
\* is gone).
SpecFair ==
  /\ Init
  /\ [][Next]_allVars
  /\ \A c \in Callers : WF_allVars(CallerStep(c))
  /\ WF_allVars(WorkerStep)

\* ========================================================================
\* SpecCapture: one CaptureWindowImage command on the worker, then
\* AsyncCaptureImage::compute on the caller's side.
\* ========================================================================
CaptureBackends == {"windows", "x11"}

\* The window as the OS sees it.  On X11 a minimized window is unmapped.
WindowStates == {"normal", "minimized", "destroyed"}

\* What another process or the user can do to the window at any moment.
WindowMoves(w) ==
  CASE w = "normal"    -> {"minimized", "destroyed"}
    [] w = "minimized" -> {"normal", "destroyed"}
    [] OTHER           -> {}

\* What the OS reports for a failed call: GetLastError() on Windows, the
\* x11rb error rendered by to_string() on X11.
OsErrors(backend) ==
  IF backend = "windows"
  THEN {"ERROR_ACCESS_DENIED", "ERROR_NOT_ENOUGH_MEMORY"}
  ELSE {"BadDrawable", "BadMatch"}

\* The steps of the capture that can fail, in program order.
CaptureSteps(backend) ==
  IF backend = "windows"
  THEN <<"get_window_rect", "is_iconic", "is_window", "get_window_dc",
         "create_compatible_dc", "create_compatible_bitmap", "bit_blt",
         "get_di_bits", "from_raw">>
  ELSE <<"get_geometry", "get_image", "from_raw">>

\* The positions from the end of the geometry lookup to the end of the pixel copy.
BetweenLookupAndCopy(backend) ==
  IF backend = "windows"
  THEN {"is_iconic", "is_window", "get_window_dc", "create_compatible_dc",
        "create_compatible_bitmap", "bit_blt"}
  ELSE {"get_image"}

\* The error variant a failing step returns.  kind is "os" on Windows; on X11
\* it tells a ConnectionError (the request could not be sent) from a
\* ReplyError (the server answered with an error): the ? operator converts
\* both through the same two From impls whichever request failed.
ErrorVariant(backend, step, kind) ==
  IF backend = "windows"
  THEN CASE step = "get_window_rect"          -> "GetWindowRectError"
         [] step = "is_iconic"                -> "IsMinimized"
         [] step = "is_window"                -> "HandleNoLongerValid"
         [] step = "get_window_dc"            -> "GetWindowDcError"
         [] step = "create_compatible_dc"     -> "CreateCompatibleDcError"
         [] step = "create_compatible_bitmap" -> "CreateCompatibleBitmapError"
         [] step = "bit_blt"                  -> "CopyBitmapError"
         [] step = "get_di_bits"              -> "DiBitsToBufferError"
         [] OTHER                             -> "InvalidBitmap"
  ELSE CASE step = "from_raw"     -> "InvalidBitmap"
         [] kind = "connection"   -> "ConnectionError"
         [] OTHER                 -> "ReplyError"

\* The variants declared with a payload (u32 code, nested Generic(u32), String).
CarriesPayload(variant) ==
  variant \notin {"IsMinimized", "HandleNoLongerValid", "InvalidBitmap"}

ErrorResult(backend, step, kind, err) ==
  LET v == ErrorVariant(backend, step, kind) IN
  [kind |-> "error", variant |-> v,
   payload |-> IF CarriesPayload(v) THEN err ELSE "none"]

RasterResult == [kind |-> "raster", variant |-> "WindowImage", payload |-> "none"]

\* The capture did not return: its thread panicked.
PanicResult == [kind |-> "panic", variant |-> "none", payload |-> "none"]

\* The width and height a Windows capture can find (right - left, bottom - top).
CaptureSizes == {[width |-> g.width, height |-> g.height] : g \in WindowGeometries}

\* A manual clean-up that runs only at the end of the success path.
Dropped_OnSuccessOnly(o, exitKind) ==
  IF exitKind = "ok" THEN {r \in Resources : o[r] # "unbound"} ELSE {}

\* The owners whose Drop runs when capture_window_image_internal returns:
\* every local that was constructed, on every return (? included).  Each
\* owner is constructed before its handle is tested, so a null handle is
\* dropped too.
Dropped(o, exitKind) == {r \in Resources : o[r] # "unbound"}

\* The limit on IMAGE_COUNT above which Image::from panics.
ImageCap == 20

\* Image::from: fetch_add(1), then panic if the count read back is above the cap.
ImageFrom(count) ==
  [count |-> count + 1, panicked |-> count + 1 > ImageCap]

SpecCaptureInit ==
  /\ capBackend \in CaptureBackends
  /\ CaptureIdle
  /\ ActorIdle
  /\ raster = EmptyRaster
  /\ EngineIdle
  /\ DeviceIdle

\* What every capture action leaves alone.
CaptureFrame == UNCHANGED <<vars, engineVars, deviceVars, capBackend>>

\* The worker takes a CaptureWindowImage command off the queue.
CaptureBegin ==
  /\ cpc = "idle"
  /\ computeOutcome # "panicked"
  /\ cpc' = CaptureSteps(capBackend)[1]
  /\ owners' = [r \in Resources |-> "unbound"]
  /\ acquired' = [r \in Resources |-> 0]
  /\ released' = [r \in Resources |-> 0]
  /\ capResult' = NoCapResult
  /\ failStep' = "none"
  /\ osError' = "none"
  /\ disturbed' = FALSE
  /\ capSize' = NoSize
  /\ prevFailure' = IF capResult.kind = "error"
                    THEN [step |-> failStep, variant |-> capResult.variant]
                    ELSE prevFailure
  /\ UNCHANGED <<win, live, imageCount, images, computeOutcome>>
  /\ CaptureFrame

\* The window is minimized, restored or destroyed while the capture runs (or
\* between captures).
WindowChange ==
  /\ computeOutcome # "panicked"
  /\ \E w \in WindowMoves(win) :
       /\ win' = w
       /\ disturbed' = (disturbed \/ cpc \in BetweenLookupAndCopy(capBackend))
  /\ UNCHANGED <<cpc, owners, live, acquired, released, capResult, failStep, osError,
                 prevFailure, capSize, imageCount, images, computeOutcome>>
  /\ CaptureFrame

\* capture_window_image_internal returns res, or unwinds in a panic: the
\* locals go out of scope.  o and got are the owners and the acquisitions
\* including this step's.
ReturnFromCapture(res, step, err, o, got, exitKind) ==
  LET freed == {r \in Dropped(o, exitKind) : o[r] = "valid"} IN
  /\ capResult' = res
  /\ failStep' = step
  /\ osError' = err
  /\ owners' = [r \in Resources |-> "unbound"]
  /\ acquired' = [r \in Resources |-> acquired[r] + IF r \in got THEN 1 ELSE 0]
  /\ released' = [r \in Resources |-> released[r] + IF r \in freed THEN 1 ELSE 0]
  /\ live' = (live \cup got) \ freed
  /\ cpc' = IF exitKind = "panic" THEN "panicked" ELSE "returned"

\* A step that acquires nothing succeeded: on to the next one.
Proceed(next) ==
  /\ cpc' = next
  /\ UNCHANGED <<owners, live, acquired, released, capResult, failStep, osError>>

CaptureRest ==
  UNCHANGED <<win, prevFailure, capSize, imageCount, images, computeOutcome>>

\* get_window_rect(hwnd): the geometry lookup, and width and height from it.
WinGetWindowRect ==
  /\ capBackend = "windows" /\ cpc = "get_window_rect"
  /\ \E osOk \in BOOLEAN, err \in OsErrors("windows"), size \in CaptureSizes :
       IF osOk /\ win # "destroyed"
       THEN /\ Proceed("is_iconic")
            /\ disturbed' = (win # "normal")
            /\ capSize' = size
       ELSE /\ ReturnFromCapture(ErrorResult("windows", cpc, "os", err), cpc, err,
                                 owners, {}, "err")
            /\ UNCHANGED <<disturbed, capSize>>
  /\ UNCHANGED <<win, prevFailure, imageCount, images, computeOutcome>>
  /\ CaptureFrame

\* IsIconic(hwnd).
WinIsIconic ==
  /\ capBackend = "windows" /\ cpc = "is_iconic"
  /\ IF win = "minimized"
     THEN ReturnFromCapture(ErrorResult("windows", cpc, "os", "none"), cpc, "none",
                            owners, {}, "err")
     ELSE Proceed("is_window")
  /\ UNCHANGED disturbed
  /\ CaptureRest /\ CaptureFrame

\* IsWindow(hwnd).
WinIsWindow ==
  /\ capBackend = "windows" /\ cpc = "is_window"
  /\ IF win = "destroyed"
     THEN ReturnFromCapture(ErrorResult("windows", cpc, "os", "none"), cpc, "none",
                            owners, {}, "err")
     ELSE Proceed("get_window_dc")
  /\ UNCHANGED disturbed
  /\ CaptureRest /\ CaptureFrame

\* One of the three owners' new(): the OS call, the struct, the null test.
Acquire(r, next, osOk, err) ==
  IF osOk
  THEN /\ owners' = [owners EXCEPT ![r] = "valid"]
       /\ live' = live \cup {r}
       /\ acquired' = [acquired EXCEPT ![r] = @ + 1]
       /\ cpc' = next
       /\ UNCHANGED <<released, capResult, failStep, osError>>
  ELSE ReturnFromCapture(ErrorResult("windows", cpc, "os", err), cpc, err,
                         [owners EXCEPT ![r] = "null"], {}, "err")

\* WindowDeviceContext::new(hwnd): GetWindowDC.
WinGetWindowDc ==
  /\ capBackend = "windows" /\ cpc = "get_window_dc"
  /\ \E osOk \in BOOLEAN, err \in OsErrors("windows") :
       Acquire("window_dc", "create_compatible_dc", osOk /\ win # "destroyed", err)
  /\ UNCHANGED disturbed
  /\ CaptureRest /\ CaptureFrame

\* hdc.create_compatible_dc(): CreateCompatibleDC.
WinCreateCompatibleDc ==
  /\ capBackend = "windows" /\ cpc = "create_compatible_dc"
  /\ \E osOk \in BOOLEAN, err \in OsErrors("windows") :
       Acquire("memory_dc", "create_compatible_bitmap", osOk, err)
  /\ UNCHANGED disturbed
  /\ CaptureRest /\ CaptureFrame

\* hdc.create_bitmap(width, height): CreateCompatibleBitmap.
WinCreateCompatibleBitmap ==
  /\ capBackend = "windows" /\ cpc = "create_compatible_bitmap"
  /\ \E osOk \in BOOLEAN, err \in OsErrors("windows") :
       Acquire("bitmap", "bit_blt", osOk, err)
  /\ UNCHANGED disturbed
  /\ CaptureRest /\ CaptureFrame

\* SelectObject, BitBlt, SelectObject back: the pixel copy.  The error code is
\* read before the bitmap is deselected, and the bitmap is deselected on both
\* paths, so DeleteObject later finds it free.
WinBitBlt ==
  /\ capBackend = "windows" /\ cpc = "bit_blt"
  /\ \E osOk \in BOOLEAN, err \in OsErrors("windows") :
       IF osOk
       THEN Proceed("get_di_bits")
       ELSE ReturnFromCapture(ErrorResult("windows", cpc, "os", err), cpc, err,
                              owners, {}, "err")
  /\ UNCHANGED disturbed
  /\ CaptureRest /\ CaptureFrame

\* The buffer of (width * height * 4) as usize bytes, then GetDIBits into it.
\* A panic in the allocation unwinds the worker thread: the owners are
\* dropped, the function returns nothing.
WinGetDiBits ==
  /\ capBackend = "windows" /\ cpc = "get_di_bits"
  /\ \E osOk \in BOOLEAN, err \in OsErrors("windows"), overflowChecks \in BOOLEAN :
       IF BufferAlloc(capSize.width, capSize.height, overflowChecks) = "panic"
       THEN ReturnFromCapture(PanicResult, "buffer", "none", owners, {}, "panic")
       ELSE IF osOk
       THEN Proceed("from_raw")
       ELSE ReturnFromCapture(ErrorResult("windows", cpc, "os", err), cpc, err,
                              owners, {}, "err")
  /\ UNCHANGED disturbed
  /\ CaptureRest /\ CaptureFrame

\* BGRA to RGBA, then RgbaImage::from_raw: Some when the buffer has the
\* width * height * 4 bytes it asks for, None (InvalidBitmap) when the
\* product wrapped and the buffer is shorter.
WinFromRaw ==
  /\ capBackend = "windows" /\ cpc = "from_raw"
  /\ IF BufferAlloc(capSize.width, capSize.height, FALSE) = "short"
     THEN ReturnFromCapture(ErrorResult("windows", cpc, "os", "none"), cpc, "none",
                            owners, {}, "err")
     ELSE ReturnFromCapture(RasterResult, "none", "none", owners, {}, "ok")
  /\ UNCHANGED disturbed
  /\ CaptureRest /\ CaptureFrame

\* How an X11 request can end.  A request on a destroyed window, and GetImage
\* on an unmapped one, is answered with an error.
X11Outcomes(step, w) ==
  IF w = "destroyed" \/ (step = "get_image" /\ w = "minimized")
  THEN {"connection", "reply"}
  ELSE {"ok", "connection", "reply"}

\* conn.get_geometry(window)?.reply()?: the geometry lookup.
X11GetGeometry ==
  /\ capBackend = "x11" /\ cpc = "get_geometry"
  /\ \E out \in X11Outcomes(cpc, win), err \in OsErrors("x11") :
       IF out = "ok"
       THEN Proceed("get_image") /\ disturbed' = (win # "normal")
       ELSE /\ ReturnFromCapture(ErrorResult("x11", cpc, out, err), cpc, err,
                                 owners, {}, "err")
            /\ UNCHANGED disturbed
  /\ CaptureRest /\ CaptureFrame

\* conn.get_image(Z_PIXMAP, window, ...)?.reply()?: the pixel copy.
X11GetImage ==
  /\ capBackend = "x11" /\ cpc = "get_image"
  /\ \E out \in X11Outcomes(cpc, win), err \in OsErrors("x11") :
       IF out = "ok"
       THEN Proceed("from_raw")
       ELSE ReturnFromCapture(ErrorResult("x11", cpc, out, err), cpc, err,
                              owners, {}, "err")
  /\ UNCHANGED disturbed
  /\ CaptureRest /\ CaptureFrame

\* BGRA to RGBA, then RgbaImage::from_raw: None when the server's data is
\* shorter than width * height * 4 bytes (a depth below 32 bits per pixel).
X11FromRaw ==
  /\ capBackend = "x11" /\ cpc = "from_raw"
  /\ \E longEnough \in BOOLEAN :
       IF longEnough
       THEN ReturnFromCapture(RasterResult, "none", "none", owners, {}, "ok")
       ELSE ReturnFromCapture(ErrorResult("x11", cpc, "none", "none"), cpc, "none",
                              owners, {}, "err")
  /\ UNCHANGED disturbed
  /\ CaptureRest /\ CaptureFrame

\* AsyncCaptureImage::compute after capture_image() has returned: ? on an
\* error, Image::from on a raster.  The worker is back at recv, or it
\* panicked: capture_image() then returns the Receive error, and the worker
\* takes no further command.
CaptureCompute ==
  /\ cpc \in {"returned", "panicked"}
  /\ cpc' = IF cpc = "panicked" THEN "worker_gone" ELSE "idle"
  /\ IF capResult.kind \in {"error", "panic"}
     THEN /\ computeOutcome' = "error"
          /\ UNCHANGED <<imageCount, images>>
     ELSE LET r == ImageFrom(imageCount) IN
          /\ imageCount' = r.count
          /\ images' = IF r.panicked THEN images ELSE images + 1
          /\ computeOutcome' = IF r.panicked THEN "panicked" ELSE "image"
  /\ UNCHANGED <<win, owners, live, acquired, released, capResult, failStep, osError,
                 prevFailure, disturbed, capSize>>
  /\ CaptureFrame

\* An Image is garbage-collected: Drop for Image.
ImageDrop ==
  /\ images > 0
  /\ computeOutcome # "panicked"
  /\ images' = images - 1
  /\ imageCount' = imageCount - 1
  /\ UNCHANGED <<cpc, win, owners, live, acquired, released, capResult, failStep,
                 osError, prevFailure, disturbed, capSize, computeOutcome>>
  /\ CaptureFrame

SpecCaptureNext ==
  \/ CaptureBegin
  \/ WindowChange
  \/ WinGetWindowRect
  \/ WinIsIconic
  \/ WinIsWindow
  \/ WinGetWindowDc
  \/ WinCreateCompatibleDc
  \/ WinCreateCompatibleBitmap
  \/ WinBitBlt
  \/ WinGetDiBits
  \/ WinFromRaw
  \/ X11GetGeometry
  \/ X11GetImage
  \/ X11FromRaw
  \/ CaptureCompute
  \/ ImageDrop

SpecCapture == SpecCaptureInit /\ [][SpecCaptureNext]_allVars

\* ========================================================================
\* SpecManual: the two capture routines that pair acquire and release calls
\* by hand, capture_window_image_internal of window/windows_native.rs and
\* WindowsWindow::capture_image of window/windows.rs.
\* ========================================================================
\* Captures that get as far as a window DC.
MaxCaptures == 2

ManualRoutines == {"windows_native", "windows"}

\* The resource an acquiring step asks the OS for, and the step after it.
ManualAcquisitions ==
  [get_window_dc |-> [resource |-> "window_dc", next |-> "create_compatible_dc"],
   create_compatible_dc |-> [resource |-> "memory_dc", next |-> "create_compatible_bitmap"],
   create_compatible_bitmap |-> [resource |-> "bitmap", next |-> "bit_blt"]]

\* The ReleaseDC, DeleteDC and DeleteObject calls written out on the way out
\* of the routine after the given step (from_raw: the end of the routine).
\* windows.rs releases all three between GetDIBits and the test of its
\* result; windows_native.rs has no release call after BitBlt's failure branch.
ManualReleases(routine, step) ==
  CASE step = "create_compatible_dc"     -> {"window_dc"}
    [] step = "create_compatible_bitmap" -> {"memory_dc", "window_dc"}
    [] step = "bit_blt"                  -> {"bitmap", "memory_dc", "window_dc"}
    [] step \in {"get_di_bits", "from_raw"} ->
         IF routine = "windows" THEN {"bitmap", "memory_dc", "window_dc"} ELSE {}
    [] OTHER                             -> {}

SpecManualInit ==
  /\ capBackend \in ManualRoutines
  /\ CaptureIdle
  /\ ActorIdle
  /\ raster = EmptyRaster
  /\ EngineIdle
  /\ DeviceIdle

\* return at the given step: the release calls of that exit, then the result.
ManualReturn(res, step) ==
  LET freed == ManualReleases(capBackend, step) IN
  /\ capResult' = res
  /\ failStep' = step
  /\ released' = [r \in Resources |-> released[r] + IF r \in freed THEN 1 ELSE 0]
  /\ live' = {r \in Resources : acquired[r] > released[r] + IF r \in freed THEN 1 ELSE 0}
  /\ cpc' = "returned"
  /\ UNCHANGED <<acquired, owners, osError>>

ManualRest ==
  UNCHANGED <<win, prevFailure, disturbed, capSize, imageCount, images, computeOutcome>>

\* The routine is called and looks up the window's rectangle (GetWindowRect,
\* self.rect()?), which gives it width and height.
ManualBegin ==
  /\ cpc \in {"idle", "returned"}
  /\ acquired["window_dc"] < MaxCaptures
  /\ \E osOk \in BOOLEAN, size \in CaptureSizes :
       IF osOk
       THEN /\ cpc' = "get_window_dc"
            /\ capResult' = NoCapResult
            /\ failStep' = "none"
            /\ capSize' = size
            /\ UNCHANGED <<acquired, released, live, owners, osError>>
       ELSE /\ ManualReturn([kind |-> "error", variant |-> "ApiError", payload |-> "none"],
                            "get_window_rect")
            /\ UNCHANGED capSize
  /\ UNCHANGED <<win, prevFailure, disturbed, imageCount, images, computeOutcome>>
  /\ CaptureFrame

\* GetWindowDC, CreateCompatibleDC, CreateCompatibleBitmap: the handle, or
\* null and the early return.
ManualAcquire ==
  /\ cpc \in DOMAIN ManualAcquisitions
  /\ \E osOk \in BOOLEAN :
       IF osOk
       THEN /\ acquired' = [acquired EXCEPT ![ManualAcquisitions[cpc].resource] = @ + 1]
            /\ live' = live \cup {ManualAcquisitions[cpc].resource}
            /\ cpc' = ManualAcquisitions[cpc].next
            /\ UNCHANGED <<released, capResult, failStep, owners, osError>>
       ELSE ManualReturn([kind |-> "error", variant |-> "ApiError", payload |-> "none"], cpc)
  /\ ManualRest /\ CaptureFrame

\* SelectObject and BitBlt.
ManualBitBlt ==
  /\ capBackend \in ManualRoutines /\ cpc = "bit_blt"
  /\ \E osOk \in BOOLEAN :
       IF osOk
       THEN /\ cpc' = "get_di_bits"
            /\ UNCHANGED <<acquired, released, live, capResult, failStep, owners, osError>>
       ELSE ManualReturn([kind |-> "error", variant |-> "ApiError", payload |-> "none"], cpc)
  /\ ManualRest /\ CaptureFrame

\* The buffer of (width * height * 4) as usize bytes, GetDIBits, the test of
\* its result, and on success the channel swap and RgbaImage::from_raw: None
\* (InvalidBitmap) for a buffer shorter than width * height * 4 bytes.  A
\* panic in the allocation comes before every release call of both routines.
ManualGetDiBits ==
  /\ capBackend \in ManualRoutines /\ cpc = "get_di_bits"
  /\ \E osOk \in BOOLEAN, overflowChecks \in BOOLEAN :
       LET alloc == BufferAlloc(capSize.width, capSize.height, overflowChecks) IN
         IF alloc = "panic"
         THEN /\ capResult' = PanicResult
              /\ failStep' = "buffer"
              /\ cpc' = "panicked"
              /\ UNCHANGED <<acquired, released, live, owners, osError>>
         ELSE IF ~osOk
         THEN ManualReturn([kind |-> "error", variant |-> "ApiError", payload |-> "none"],
                           cpc)
         ELSE IF alloc = "short"
         THEN ManualReturn([kind |-> "error", variant |-> "InvalidBitmap",
                            payload |-> "none"], "from_raw")
         ELSE ManualReturn(RasterResult, "from_raw")
  /\ ManualRest /\ CaptureFrame

SpecManualNext ==
  \/ ManualBegin
  \/ ManualAcquire
  \/ ManualBitBlt
  \/ ManualGetDiBits

SpecManual == SpecManualInit /\ [][SpecManualNext]_allVars

\* ========================================================================
\* SpecImage: the tasks of image.rs applied to bounded rasters and features.
\* ========================================================================
\* A caller-made Feature has at most MaxFeatureLen pixels.
MaxFeatureLen == 2

\* A u32 is the pair <<high 16 bits, low 16 bits>>, so that the full range is
\* there with its wrap-around.
Limb == 65536

ToU32(n) == <<n \div Limb, n % Limb>>

U32Max == <<Limb - 1, Limb - 1>>

LeU32(a, b) == a[1] < b[1] \/ (a[1] = b[1] /\ a[2] <= b[2])

LtU32(a, b) == ~LeU32(b, a)

\* Iterator::min / Iterator::max over u32 values.
MinU32(S) == CHOOSE m \in S : \A v \in S : LeU32(m, v)

MaxU32(S) == CHOOSE m \in S : \A v \in S : LeU32(v, m)

\* a - b for a >= b.
SubU32(a, b) ==
  IF a[2] >= b[2] THEN <<a[1] - b[1], a[2] - b[2]>>
                  ELSE <<a[1] - b[1] - 1, a[2] + Limb - b[2]>>

\* a + b: the wrapped sum, and whether it left the u32 range (a panic in a
\* build with overflow checks, the wrapped value in one without).
AddU32(a, b) ==
  LET lo == a[2] + b[2]
      hi == a[1] + b[1] + (lo \div Limb)
  IN [value |-> <<hi % Limb, lo % Limb>>, overflow |-> hi >= Limb]

\* rgba_number_into_rgba: the four bytes of a u32, most significant first.
rgba_number_into_rgba(n) ==
  <<n[1] \div 256, n[1] % 256, n[2] \div 256, n[2] % 256>>

\* rgba_into_rgba_number: (r << 24) | (g << 16) | (b << 8) | a.
rgba_into_rgba_number(p) == <<p[1] * 256 + p[2], p[3] * 256 + p[4]>>

Pixel(x, y, rgba) == [x |-> x, y |-> y, rgba |-> rgba]

Ok(v) == [status |-> "ok", value |-> v]

Err(reason) == [status |-> "err", reason |-> reason]

Panic == [status |-> "panic"]

\* Leaves the alpha channel out of the distance.
ColorDistanceSq_WithoutAlpha(color1, color2, use_alpha) ==
  LET c1 == rgba_number_into_rgba(color1)
      c2 == rgba_number_into_rgba(color2)
  IN (c1[1] - c2[1]) * (c1[1] - c2[1]) + (c1[2] - c2[2]) * (c1[2] - c2[2])
       + (c1[3] - c2[3]) * (c1[3] - c2[3])

\* The square of color_distance (dr^2 + dg^2 + db^2 [+ da^2], before sqrt).
ColorDistanceSq(color1, color2, use_alpha) ==
  LET c1 == rgba_number_into_rgba(color1)
      c2 == rgba_number_into_rgba(color2)
      sq(i) == (c1[i] - c2[i]) * (c1[i] - c2[i])
  IN sq(1) + sq(2) + sq(3) + (IF use_alpha THEN sq(4) ELSE 0)

\* max_color_distance / MAX_COLOR_DISTANCE.
MaxColorDistance == 510

\* Counts a distance equal to the tolerance as a mismatch.
ExceedsTolerance_Inclusive(distSq, pct) ==
  pct.n < 0 \/ distSq * pct.d * pct.d >= MaxColorDistance * MaxColorDistance * pct.n * pct.n

\* distance > MaxColorDistance * pct, for pct = n/d with d a power of two (the
\* product and the comparison are then exact in f64): compared as squares.
ExceedsTolerance(distSq, pct) ==
  pct.n < 0 \/ distSq * pct.d * pct.d > MaxColorDistance * MaxColorDistance * pct.n * pct.n

\* Cuts the product off instead of rounding it.
RoundPct_Truncated(total, pct) ==
  LET a == total * pct.n IN
  IF a <= 0 THEN 0 ELSE a \div pct.d

\* Binary numerals, most significant bit first, for the 53-bit significand of
\* an f64 and for products of it.  The numeral of q on k bits:
BitsOf(q, k) == [i \in 1..k |-> (q \div 2^(k - i)) % 2]

\* The value of a numeral of at most 30 bits.
RECURSIVE BitsToInt(_)
BitsToInt(bits) ==
  IF bits = <<>> THEN 0
  ELSE IF Len(bits) = 1 THEN bits[1]
  ELSE LET h == Len(bits) \div 2
       IN BitsToInt(SubSeq(bits, 1, h)) * 2^(Len(bits) - h)
            + BitsToInt(SubSeq(bits, h + 1, Len(bits)))

\* bits + 1.
BitsInc(bits) ==
  LET zeros == {i \in 1..Len(bits) : bits[i] = 0} IN
  IF zeros = {} THEN <<1>> \o [i \in 1..Len(bits) |-> 0]
  ELSE LET z == CHOOSE i \in zeros : \A j \in zeros : j <= i
       IN [i \in 1..Len(bits) |-> IF i < z THEN bits[i] ELSE IF i = z THEN 1 ELSE 0]

\* bits without its leading zeros.
BitsStrip(bits) ==
  LET ones == {i \in 1..Len(bits) : bits[i] = 1} IN
  IF ones = {} THEN <<>>
  ELSE SubSeq(bits, CHOOSE i \in ones : \A j \in ones : i <= j, Len(bits))

\* The bits 1..i of bits * m (m < 2^22), given the carry into bit i; eight
\* bits at a time.
RECURSIVE BitsTimes(_, _, _, _)
BitsTimes(bits, m, i, carry) ==
  IF i = 0 THEN BitsOf(carry, 31)
  ELSE LET c == IF i < 8 THEN i ELSE 8
           v == BitsToInt(SubSeq(bits, i - c + 1, i)) * m + carry
       IN BitsTimes(bits, m, i - c, v \div 2^c) \o BitsOf(v % 2^c, c)

\* The number of bits of an f64's significand.
F64Digits == 53

\* x / y = (n / d) * 2^(-e) with 1 <= x / y < 2.
RECURSIVE F64Normalise(_, _, _)
F64Normalise(x, y, e) ==
  IF x < y THEN F64Normalise(2 * x, y, e - 1)
  ELSE IF 2 * y <= x THEN F64Normalise(x, 2 * y, e + 1)
  ELSE [x |-> x, y |-> y, e |-> e]

\* Long division, eight bits at a time: acc followed by the next k bits of
\* r / y (r < y < 2^22), and the remainder after them.
RECURSIVE F64Quotient(_, _, _, _)
F64Quotient(r, y, k, acc) ==
  IF k = 0 THEN [bits |-> acc, rem |-> r]
  ELSE LET c == IF k < 8 THEN k ELSE 8
       IN F64Quotient((r * 2^c) % y, y, k - c, acc \o BitsOf((r * 2^c) \div y, c))

\* A numeral cut to the bits of a significand, round to nearest, ties to
\* even: the value is bits * 2^exp.
F64Nearest(bits, exp, sticky) ==
  IF Len(bits) <= F64Digits THEN [bits |-> bits, exp |-> exp]
  ELSE LET kept == SubSeq(bits, 1, F64Digits)
           guard == bits[F64Digits + 1] = 1
           rest == sticky \/ \E i \in (F64Digits + 2)..Len(bits) : bits[i] = 1
           up == guard /\ (rest \/ kept[F64Digits] = 1)
       IN [bits |-> IF up THEN BitsInc(kept) ELSE kept,
           exp |-> exp + Len(bits) - F64Digits]

\* The f64 a caller passes for the fraction n / d (n, d > 0): the nearest one.
ToF64(n, d) ==
  LET nm == F64Normalise(n, d, 0)
      q == F64Quotient(nm.x - nm.y, nm.y, F64Digits, <<1>>)
  IN F64Nearest(q.bits, nm.e - F64Digits, q.rem > 0)

\* total * f in f64, total an integer below 2^22: the exact product, rounded.
F64Times(total, f) ==
  F64Nearest(BitsStrip(BitsTimes(f.bits, total, Len(f.bits), 0)), f.exp, FALSE)

\* f64::round of a positive f below 2^30: to the nearest integer, halves away
\* from zero.
F64Round(f) ==
  IF f.exp >= 0 THEN BitsToInt(f.bits \o [i \in 1..f.exp |-> 0])
  ELSE IF -f.exp > Len(f.bits) THEN 0
  ELSE BitsToInt(SubSeq(f.bits, 1, Len(f.bits) + f.exp)) + f.bits[Len(f.bits) + f.exp + 1]

\* (total * pct).round() as u32, pct the f64 nearest to n / d: the product is
\* rounded to an f64 first, then to the nearest integer with halves away from
\* zero; a negative value saturates to 0.
RoundPct(total, pct) ==
  IF total <= 0 \/ pct.n <= 0 THEN 0
  ELSE F64Round(F64Times(total, ToF64(pct.n, pct.d)))

\* RgbaImage::get_pixel_checked: the pixel, or <<>> for None.
get_pixel_checked(R, x, y) ==
  IF LtU32(x, ToU32(R.width)) /\ LtU32(y, ToU32(R.height))
  THEN R.data[y[2] * R.width + x[2] + 1]
  ELSE <<>>

\* Compares the colour channels and leaves alpha out.
PixelEquals_IgnoreAlpha(pixel, rgba) ==
  pixel[1] = rgba[1] /\ pixel[2] = rgba[2] /\ pixel[3] = rgba[3]

\* *pixel == rgba on Rgba<u8>: all four bytes.
PixelEquals(pixel, rgba) == pixel = rgba

\* AsyncFindRgbas::compute: enumerate_pixels goes row by row, x fastest.
FindRgbas(R, rgba_number) ==
  LET rgba == rgba_number_into_rgba(rgba_number)
      hits == SelectSeq([k \in 1..Len(R.data) |-> k],
                        LAMBDA k : PixelEquals(R.data[k], rgba))
  IN Ok([i \in 1..Len(hits) |->
          Pixel(ToU32((hits[i] - 1) % R.width), ToU32((hits[i] - 1) \div R.width),
                rgba_into_rgba_number(R.data[hits[i]]))])

\* Measures the box from the origin of the feature's coordinates.
FeatureBox_FromOrigin(F) ==
  LET xs == {F[i].x : i \in 1..Len(F)}
      ys == {F[i].y : i \in 1..Len(F)}
  IN [minX |-> ToU32(0), maxX |-> MaxU32(xs), minY |-> ToU32(0), maxY |-> MaxU32(ys)]

\* min and max of the feature's coordinates.
FeatureBox(F) ==
  LET xs == {F[i].x : i \in 1..Len(F)}
      ys == {F[i].y : i \in 1..Len(F)}
  IN [minX |-> MinU32(xs), maxX |-> MaxU32(xs), minY |-> MinU32(ys), maxY |-> MaxU32(ys)]

\* max - min + 1.
FeatureExtent(lo, hi) == AddU32(SubU32(hi, lo), ToU32(1))

\* Leaves the pixel scan as soon as the budget is used up.
BreakScan_AtBudget(mismatches, budget) == mismatches >= budget

\* if current_mismatches > max_mismatches_count { break; }
BreakScan(mismatches, budget) == mismatches > budget

\* The pixel scan of one candidate position: the mismatch counter when the
\* loop is left.  The additions wrap: they can only overflow when the extent
\* itself wrapped, which a build with overflow checks does not survive.
RECURSIVE ScanMismatches(_, _, _, _, _)
ScanMismatches(ctx, start_x, start_y, i, mismatches) ==
  IF i > Len(ctx.F) THEN mismatches
  ELSE LET fp == ctx.F[i]
           cx == AddU32(start_x, SubU32(fp.x, ctx.minX)).value
           cy == AddU32(start_y, SubU32(fp.y, ctx.minY)).value
           img == get_pixel_checked(ctx.R, cx, cy)
           miss == \/ img = <<>>
                   \/ ExceedsTolerance(
                        ColorDistanceSq(fp.rgba, rgba_into_rgba_number(img), TRUE),
                        ctx.tol)
       IN IF miss
          THEN IF BreakScan(mismatches + 1, ctx.budget)
               THEN mismatches + 1
               ELSE ScanMismatches(ctx, start_x, start_y, i + 1, mismatches + 1)
          ELSE ScanMismatches(ctx, start_x, start_y, i + 1, mismatches)

\* The two position loops, start_y outside and start_x inside, over nx * ny
\* candidates; get_pixel panics outside the raster.
RECURSIVE CollectMatches(_, _, _, _, _)
CollectMatches(ctx, nx, ny, k, found) ==
  IF k >= nx * ny THEN Ok(found)
  ELSE LET sx == k % nx
           sy == k \div nx
       IN IF ScanMismatches(ctx, ToU32(sx), ToU32(sy), 1, 0) <= ctx.budget
          THEN IF sx >= ctx.R.width \/ sy >= ctx.R.height
               THEN Panic
               ELSE CollectMatches(ctx, nx, ny, k + 1,
                      Append(found, Pixel(ToU32(sx), ToU32(sy),
                        rgba_into_rgba_number(
                          get_pixel_checked(ctx.R, ToU32(sx), ToU32(sy))))))
          ELSE CollectMatches(ctx, nx, ny, k + 1, found)

\* AsyncFindFeatures::compute.  overflowChecks: the build panics on integer
\* overflow (debug) or wraps (release).
FindFeatures(R, F, tol, mm, overflowChecks) ==
  IF Len(F) = 0 THEN Ok(<<>>)
  ELSE
    LET box == FeatureBox(F)
        fw == FeatureExtent(box.minX, box.maxX)
        fh == FeatureExtent(box.minY, box.maxY)
    IN IF overflowChecks /\ (fw.overflow \/ fh.overflow) THEN Panic
       ELSE IF LtU32(ToU32(R.width), fw.value) \/ LtU32(ToU32(R.height), fh.value)
       THEN Ok(<<>>)
       ELSE LET ctx == [R |-> R, F |-> F, minX |-> box.minX, minY |-> box.minY,
                        tol |-> tol, budget |-> RoundPct(Len(F), mm)]
            IN CollectMatches(ctx, R.width - fw.value[2] + 1,
                              R.height - fh.value[2] + 1, 0, <<>>)

\* The raster coordinates that the pixel scan of one candidate position hands
\* to get_pixel_checked, up to the pixel at which the scan is left.
RECURSIVE ScanSamples(_, _, _, _, _)
ScanSamples(ctx, start_x, start_y, i, mismatches) ==
  IF i > Len(ctx.F) THEN {}
  ELSE LET fp == ctx.F[i]
           cx == AddU32(start_x, SubU32(fp.x, ctx.minX)).value
           cy == AddU32(start_y, SubU32(fp.y, ctx.minY)).value
           img == get_pixel_checked(ctx.R, cx, cy)
           miss == \/ img = <<>>
                   \/ ExceedsTolerance(
                        ColorDistanceSq(fp.rgba, rgba_into_rgba_number(img), TRUE),
                        ctx.tol)
           next == IF miss THEN mismatches + 1 ELSE mismatches
       IN {<<cx, cy>>} \cup
          IF miss /\ BreakScan(next, ctx.budget)
          THEN {}
          ELSE ScanSamples(ctx, start_x, start_y, i + 1, next)

\* The coordinates sampled at candidate (sx, sy): the scan's, and the
\* position itself when it is reported (get_pixel(start_x, start_y)).
CandidateSamples(ctx, sx, sy) ==
  ScanSamples(ctx, ToU32(sx), ToU32(sy), 1, 0) \cup
    IF ScanMismatches(ctx, ToU32(sx), ToU32(sy), 1, 0) <= ctx.budget
    THEN {<<ToU32(sx), ToU32(sy)>>}
    ELSE {}

\* Every raster coordinate AsyncFindFeatures::compute samples, the position
\* at which get_pixel panics included.  Candidates after that position are
\* not visited.
FindFeatureSamples(R, F, tol, mm, overflowChecks) ==
  IF Len(F) = 0 THEN {}
  ELSE
    LET box == FeatureBox(F)
        fw == FeatureExtent(box.minX, box.maxX)
        fh == FeatureExtent(box.minY, box.maxY)
    IN IF overflowChecks /\ (fw.overflow \/ fh.overflow) THEN {}
       ELSE IF LtU32(ToU32(R.width), fw.value) \/ LtU32(ToU32(R.height), fh.value)
       THEN {}
       ELSE LET ctx == [R |-> R, F |-> F, minX |-> box.minX, minY |-> box.minY,
                        tol |-> tol, budget |-> RoundPct(Len(F), mm)]
                nx == R.width - fw.value[2] + 1
                ny == R.height - fh.value[2] + 1
                Reported(k) ==
                  ScanMismatches(ctx, ToU32(k % nx), ToU32(k \div nx), 1, 0) <= ctx.budget
                PanicsAt(k) ==
                  Reported(k) /\ (k % nx >= R.width \/ k \div nx >= R.height)
                visited == {k \in 0..(nx * ny - 1) :
                              \A j \in 0..(k - 1) : ~PanicsAt(j)}
            IN UNION {CandidateSamples(ctx, k % nx, k \div nx) : k \in visited}

\* A score of 0.0 where the error belongs.
NoPixelsError_ZeroScore == Ok(<<0, 1>>)

\* Err(Error::from_reason("This feature has no pixels")).
NoPixelsError == Err("This feature has no pixels")

\* Counts every feature pixel that lands inside the raster, whatever its colour.
CountMatching_AnyColour(ctx, x, y, i, matching) ==
  matching + Cardinality({j \in i..Len(ctx.F) :
    get_pixel_checked(ctx.R,
      AddU32(x, SubU32(ctx.F[j].x, ctx.minX)).value,
      AddU32(y, SubU32(ctx.F[j].y, ctx.minY)).value) # <<>>})

\* The matching-pixel loop of check_feature.
RECURSIVE CountMatching(_, _, _, _, _)
CountMatching(ctx, x, y, i, matching) ==
  IF i > Len(ctx.F) THEN matching
  ELSE LET fp == ctx.F[i]
           cx == AddU32(x, SubU32(fp.x, ctx.minX)).value
           cy == AddU32(y, SubU32(fp.y, ctx.minY)).value
           img == get_pixel_checked(ctx.R, cx, cy)
           hit == /\ img # <<>>
                  /\ ~ExceedsTolerance(
                        ColorDistanceSq(fp.rgba, rgba_into_rgba_number(img), TRUE),
                        ctx.tol)
       IN CountMatching(ctx, x, y, i + 1, matching + IF hit THEN 1 ELSE 0)

\* AsyncCheckFeature::compute.  The score matching / total is the pair
\* <<matching, total>>.
CheckFeature(R, x, y, F, tol, overflowChecks) ==
  IF Len(F) = 0 THEN NoPixelsError
  ELSE
    LET box == FeatureBox(F)
        fw == FeatureExtent(box.minX, box.maxX)
        fh == FeatureExtent(box.minY, box.maxY)
        right == AddU32(x, fw.value)
        bottom == AddU32(y, fh.value)
        ctx == [R |-> R, F |-> F, minX |-> box.minX, minY |-> box.minY, tol |-> tol]
    IN IF overflowChecks /\ (fw.overflow \/ fh.overflow) THEN Panic
       ELSE IF overflowChecks /\ right.overflow THEN Panic
       ELSE IF LtU32(ToU32(R.width), right.value)
       THEN Err("Feature, when placed at the given top_left point, extends beyond image boundaries.")
       ELSE IF overflowChecks /\ bottom.overflow THEN Panic
       ELSE IF LtU32(ToU32(R.height), bottom.value)
       THEN Err("Feature, when placed at the given top_left point, extends beyond image boundaries.")
       ELSE Ok(<<CountMatching(ctx, x, y, 1, 0), Len(F)>>)

\* Takes the second corner as lying just outside the region.
GetFeature_ExclusiveEnd(R, start_x, start_y, end_x, end_y) ==
  LET min_x == MinU32({start_x, end_x})
      max_x == MaxU32({start_x, end_x})
      min_y == MinU32({start_y, end_y})
      max_y == MaxU32({start_y, end_y})
      w == max_x[2] - min_x[2]
      h == max_y[2] - min_y[2]
  IN IF LeU32(ToU32(R.width), min_x) \/ LeU32(ToU32(R.height), min_y)
     THEN Err("Start point is outside image boundaries.")
     ELSE IF LeU32(ToU32(R.width), max_x) \/ LeU32(ToU32(R.height), max_y)
     THEN Err("End point is outside image boundaries.")
     ELSE Ok([k \in 1..(w * h) |->
               Pixel(ToU32((k - 1) % w), ToU32((k - 1) \div w),
                     rgba_into_rgba_number(
                       get_pixel_checked(R, ToU32(min_x[2] + ((k - 1) % w)),
                                            ToU32(min_y[2] + ((k - 1) \div w)))))])

\* Walks the region from the first corner towards the second.
GetFeature_FromFirstCorner(R, start_x, start_y, end_x, end_y) ==
  LET min_x == MinU32({start_x, end_x})
      max_x == MaxU32({start_x, end_x})
      min_y == MinU32({start_y, end_y})
      max_y == MaxU32({start_y, end_y})
      w == max_x[2] - min_x[2] + 1
      h == max_y[2] - min_y[2] + 1
  IN IF LeU32(ToU32(R.width), min_x) \/ LeU32(ToU32(R.height), min_y)
     THEN Err("Start point is outside image boundaries.")
     ELSE IF LeU32(ToU32(R.width), max_x) \/ LeU32(ToU32(R.height), max_y)
     THEN Err("End point is outside image boundaries.")
     ELSE Ok([k \in 1..(w * h) |->
               LET x == IF start_x = min_x THEN min_x[2] + ((k - 1) % w)
                                           ELSE max_x[2] - ((k - 1) % w)
                   y == IF start_y = min_y THEN min_y[2] + ((k - 1) \div w)
                                           ELSE max_y[2] - ((k - 1) \div w)
               IN Pixel(ToU32(x - min_x[2]), ToU32(y - min_y[2]),
                        rgba_into_rgba_number(
                          get_pixel_checked(R, ToU32(x), ToU32(y))))])

\* Samples the raster at the relative coordinates instead of the absolute ones.
GetFeature_SampleAtOrigin(R, start_x, start_y, end_x, end_y) ==
  LET min_x == MinU32({start_x, end_x})
      max_x == MaxU32({start_x, end_x})
      min_y == MinU32({start_y, end_y})
      max_y == MaxU32({start_y, end_y})
      w == max_x[2] - min_x[2] + 1
      h == max_y[2] - min_y[2] + 1
  IN IF LeU32(ToU32(R.width), max_x) \/ LeU32(ToU32(R.height), max_y)
     THEN Err("End point is outside image boundaries.")
     ELSE Ok([k \in 1..(w * h) |->
               Pixel(ToU32((k - 1) % w), ToU32((k - 1) \div w),
                     rgba_into_rgba_number(
                       get_pixel_checked(R, ToU32((k - 1) % w), ToU32((k - 1) \div w))))])

\* AsyncGetFeature::compute: the region row by row, coordinates relative to
\* its top-left corner.
GetFeature(R, start_x, start_y, end_x, end_y) ==
  LET min_x == MinU32({start_x, end_x})
      max_x == MaxU32({start_x, end_x})
      min_y == MinU32({start_y, end_y})
      max_y == MaxU32({start_y, end_y})
      w == max_x[2] - min_x[2] + 1
      h == max_y[2] - min_y[2] + 1
  IN IF LeU32(ToU32(R.width), min_x) \/ LeU32(ToU32(R.height), min_y)
     THEN Err("Start point is outside image boundaries.")
     ELSE IF LeU32(ToU32(R.width), max_x) \/ LeU32(ToU32(R.height), max_y)
     THEN Err("End point is outside image boundaries.")
     ELSE Ok([k \in 1..(w * h) |->
               LET x == min_x[2] + ((k - 1) % w)
                   y == min_y[2] + ((k - 1) \div w)
               IN Pixel(ToU32(x - min_x[2]), ToU32(y - min_y[2]),
                        rgba_into_rgba_number(
                          get_pixel_checked(R, ToU32(x), ToU32(y))))])

\* The sort key (p.x, p.y): tuples compare first by x, then by y.
KeyLe(p, q) == LtU32(p.x, q.x) \/ (p.x = q.x /\ LeU32(p.y, q.y))

\* pixels.sort_by_key(|p| (p.x, p.y)): a stable sort, each pixel put behind
\* the pixels whose key is not greater.
RECURSIVE SortByKey(_)
SortByKey(pixels) ==
  IF Len(pixels) = 0 THEN <<>>
  ELSE LET sorted == SortByKey(SubSeq(pixels, 1, Len(pixels) - 1))
           p == pixels[Len(pixels)]
           before == SelectSeq(sorted, LAMBDA q : KeyLe(q, p))
           after == SelectSeq(sorted, LAMBDA q : ~KeyLe(q, p))
       IN before \o <<p>> \o after

\* MAX_DISTANCE.
MaxDistance == 5

\* MAX_DIST_SQ.
MaxDistSq == MaxDistance * MaxDistance

\* (a as i64) - (b as i64).
DiffI64(a, b) == (a[1] - b[1]) * Limb + (a[2] - b[2])

\* Lets a pixel join on the distance along x alone.
Near_AlongXOnly(gp, pixel) ==
  DiffI64(gp.x, pixel.x) * DiffI64(gp.x, pixel.x) <= MaxDistSq

\* dx * dx + dy * dy <= MAX_DIST_SQ.
Near(gp, pixel) ==
  LET dx == DiffI64(gp.x, pixel.x)
      dy == DiffI64(gp.y, pixel.y)
  IN dx * dx + dy * dy <= MaxDistSq

\* Takes the group made last among those with a near member.
JoinedGroup_Latest(groups, pixel) ==
  LET near == {g \in 1..Len(groups) :
                 \E k \in 1..Len(groups[g]) : Near(groups[g][k], pixel)}
  IN IF near = {} THEN 0 ELSE CHOOSE g \in near : \A h \in near : h <= g

\* The first group, in the order of creation, that has a member near the
\* pixel; 0 when there is none.
JoinedGroup(groups, pixel) ==
  LET near == {g \in 1..Len(groups) :
                 \E k \in 1..Len(groups[g]) : Near(groups[g][k], pixel)}
  IN IF near = {} THEN 0 ELSE CHOOSE g \in near : \A h \in near : g <= h

\* The loop over the sorted pixels: push to the joined group, or push a new
\* group of the pixel alone.
RECURSIVE Cluster(_, _, _)
Cluster(pixels, i, groups) ==
  IF i > Len(pixels) THEN groups
  ELSE LET g == JoinedGroup(groups, pixels[i])
       IN Cluster(pixels, i + 1,
            IF g = 0 THEN Append(groups, <<pixels[i]>>)
            ELSE [groups EXCEPT ![g] = Append(@, pixels[i])])

\* Puts every pixel of the colour into one Feature.
GetFeaturesFromColor_OneFeature(R, rgba_number) ==
  Ok(<<SortByKey(FindRgbas(R, rgba_number).value)>>)

\* AsyncGetFeaturesFromColor::compute: the Features are the groups.
GetFeaturesFromColor(R, rgba_number) ==
  Ok(Cluster(SortByKey(FindRgbas(R, rgba_number).value), 1, <<>>))

ColourFrequency(rgba, count) == [rgba |-> rgba, count |-> count]

\* Counts the region without its last row.
ColourCounts_LastRowLeftOut(R, min_x, min_y, max_x, max_y) ==
  LET cells == (min_x..max_x) \X (min_y..(max_y - 1))
      colours == {rgba_into_rgba_number(R.data[c[2] * R.width + c[1] + 1]) : c \in cells}
  IN [rgba \in colours |->
        Cardinality({c \in cells :
          rgba_into_rgba_number(R.data[c[2] * R.width + c[1] + 1]) = rgba})]

\* colour_counts after the two loops: a count for each colour of the region.
ColourCounts(R, min_x, min_y, max_x, max_y) ==
  LET cells == (min_x..max_x) \X (min_y..max_y)
      colours == {rgba_into_rgba_number(R.data[c[2] * R.width + c[1] + 1]) : c \in cells}
  IN [rgba \in colours |->
        Cardinality({c \in cells :
          rgba_into_rgba_number(R.data[c[2] * R.width + c[1] + 1]) = rgba})]

\* HashMap::into_iter().map(..).collect(): the entries once each, in an
\* order that the hasher's random keys decide.
IntoIter(counts) ==
  LET entries == {ColourFrequency(c, counts[c]) : c \in DOMAIN counts}
      n == Cardinality(entries)
  IN {s \in [1..n -> entries] : \A i, j \in 1..n : i # j => s[i] # s[j]}

\* AsyncGetColourFrequencies::compute: the results it can come to.
GetColourFrequencies(R, start_x, start_y, end_x, end_y) ==
  LET min_x == MinU32({start_x, end_x})
      max_x == MaxU32({start_x, end_x})
      min_y == MinU32({start_y, end_y})
      max_y == MaxU32({start_y, end_y})
  IN IF \/ LeU32(ToU32(R.width), min_x) \/ LeU32(ToU32(R.height), min_y)
        \/ LeU32(ToU32(R.width), max_x) \/ LeU32(ToU32(R.height), max_y)
     THEN {Err("Coordinates are outside image boundaries.")}
     ELSE {Ok(s) : s \in IntoIter(ColourCounts(R, min_x[2], min_y[2], max_x[2], max_y[2]))}

\* ------------------------------------------------------- engine: inputs
\* Pixel values of the rasters: opaque red and fully transparent red.
RasterColours == {<<255, 0, 0, 255>>, <<255, 0, 0, 0>>}

\* Widths and heights of the rasters.
RasterDims == {1, 2}

Rasters ==
  UNION {{[width |-> d[1], height |-> d[2], data |-> px] :
            px \in [1..(d[1] * d[2]) -> RasterColours]} :
         d \in RasterDims \X RasterDims}

FeatureColours == {rgba_into_rgba_number(c) : c \in RasterColours}

\* Pixels a caller can put into a Feature: coordinates near the origin, and
\* one at the far end of the u32 range.
NearCoords == {ToU32(0), ToU32(1)}

FeaturePixels ==
  {Pixel(x, y, c) : x \in NearCoords, y \in NearCoords, c \in FeatureColours}
    \cup {Pixel(U32Max, ToU32(0), c) : c \in FeatureColours}

CallerFeatures == UNION {[1..n -> FeaturePixels] : n \in 0..MaxFeatureLen}

\* max_color_distance_percent and max_pixel_difference_percent as fractions n/d.
Percentages == {[n |-> 0, d |-> 1], [n |-> 1, d |-> 2], [n |-> 1, d |-> 1]}

\* Colours asked of find_rgbas: the two in the rasters and transparent black.
QueryColours == FeatureColours \cup {ToU32(0)}

\* Anchors given to check_feature.
AnchorXs == {ToU32(0), ToU32(1), U32Max}

AnchorYs == {ToU32(0), ToU32(1)}

\* Corner coordinates given to get_feature: inside every raster, inside the
\* larger ones only, outside all.
RectCoords == {ToU32(0), ToU32(1), ToU32(2)}

\* ------------------------------------------------------ engine: actions
SpecImageInit ==
  /\ raster \in Rasters
  /\ EngineIdle
  /\ DeviceIdle
  /\ ActorIdle
  /\ capBackend = "windows"
  /\ CaptureIdle

EngineFrame == UNCHANGED <<vars, captureVars, deviceVars, raster>>

\* The caller builds a Feature of its own.
SupplyFeature ==
  /\ call = NoCall /\ feature = <<>>
  /\ \E F \in CallerFeatures \ {<<>>} : feature' = F
  /\ featureOrigin' = CallerMade
  /\ UNCHANGED <<call, ret>>
  /\ EngineFrame

\* image.get_feature(start_x, start_y, end_x, end_y); the caller keeps the Feature.
RunGetFeature ==
  /\ call = NoCall /\ feature = <<>>
  /\ \E sx \in RectCoords, sy \in RectCoords, ex \in RectCoords, ey \in RectCoords :
       LET r == GetFeature(raster, sx, sy, ex, ey) IN
       /\ call' = [task |-> "get_feature", start_x |-> sx, start_y |-> sy,
                   end_x |-> ex, end_y |-> ey]
       /\ ret' = r
       /\ feature' = IF r.status = "ok" THEN r.value ELSE feature
       /\ featureOrigin' =
            IF r.status = "ok"
            THEN [kind |-> "get_feature",
                  minX |-> MinU32({sx, ex}), minY |-> MinU32({sy, ey}),
                  maxX |-> MaxU32({sx, ex}), maxY |-> MaxU32({sy, ey})]
            ELSE featureOrigin
  /\ EngineFrame

\* image.find_feature(feature, max_color_distance_percent, max_pixel_difference_percent).
RunFindFeature ==
  /\ call.task \in {"none", "get_feature"}
  /\ \E tol \in Percentages, mm \in Percentages, overflowChecks \in BOOLEAN :
       /\ call' = [task |-> "find_feature", tol |-> tol, mm |-> mm]
       /\ ret' = FindFeatures(raster, feature, tol, mm, overflowChecks)
  /\ UNCHANGED <<feature, featureOrigin>>
  /\ EngineFrame

\* image.check_feature(x, y, feature, max_color_distance_percent).
RunCheckFeature ==
  /\ call.task \in {"none", "get_feature"}
  /\ \E x \in AnchorXs, y \in AnchorYs, tol \in Percentages, overflowChecks \in BOOLEAN :
       /\ call' = [task |-> "check_feature", x |-> x, y |-> y, tol |-> tol]
       /\ ret' = CheckFeature(raster, x, y, feature, tol, overflowChecks)
  /\ UNCHANGED <<feature, featureOrigin>>
  /\ EngineFrame

\* image.find_rgbas(rgba_number).
RunFindRgbas ==
  /\ call = NoCall /\ feature = <<>>
  /\ \E c \in QueryColours :
       /\ call' = [task |-> "find_rgbas", rgba_number |-> c]
       /\ ret' = FindRgbas(raster, c)
  /\ UNCHANGED <<feature, featureOrigin>>
  /\ EngineFrame

\* The caller lets go of the Feature and of the result and starts over with
\* the same Image.
StartOver ==
  /\ call # NoCall \/ feature # <<>>
  /\ feature' = <<>>
  /\ featureOrigin' = CallerMade
  /\ call' = NoCall
  /\ ret' = NoReturn
  /\ EngineFrame

SpecImageNext ==
  \/ SupplyFeature
  \/ RunGetFeature
  \/ RunFindFeature
  \/ RunCheckFeature
  \/ RunFindRgbas
  \/ StartOver

SpecImage == SpecImageInit /\ [][SpecImageNext]_allVars

\* ========================================================================
\* SpecRegion: clustering and colour counting over sparse rasters.
\* ========================================================================
OpaqueBlack == <<0, 0, 0, 255>>

\* Cells of the 2x9 rasters that can carry a mark: three in the left column,
\* further apart than MaxDistance from the first to the last, and one in the
\* right column within MaxDistance of all three.
MarkCells == {<<0, 0>>, <<0, 4>>, <<0, 8>>, <<1, 4>>}

\* A raster of one background colour with the cells of marks coloured; a
\* marked cell has one of the RasterColours.
SparseRaster(w, h, background, marks) ==
  [width |-> w, height |-> h,
   data |-> [k \in 1..(w * h) |->
     LET cell == <<(k - 1) % w, (k - 1) \div w>>
     IN IF cell \in DOMAIN marks THEN marks[cell] ELSE background]]

\* The 4x4 raster that is black except for opaque red at (2, 2).
ScenarioRaster ==
  SparseRaster(4, 4, OpaqueBlack, [c \in {<<2, 2>>} |-> <<255, 0, 0, 255>>])

RegionRasters ==
  {SparseRaster(2, 9, OpaqueBlack, marks) :
     marks \in UNION {[S -> RasterColours] : S \in SUBSET MarkCells}}
    \cup {ScenarioRaster}

\* Corner coordinates given to get_colour_frequencies: the last column of
\* the 2x9 and of the 4x4 rasters, the last row of each, and beyond.
RegionXs == {ToU32(0), ToU32(1), ToU32(3), ToU32(4)}

RegionYs == {ToU32(0), ToU32(3), ToU32(8), ToU32(9)}

SpecRegionInit ==
  /\ raster \in RegionRasters
  /\ EngineIdle
  /\ DeviceIdle
  /\ ActorIdle
  /\ capBackend = "windows"
  /\ CaptureIdle

\* image.get_features_from_color(rgba_number).
RunGetFeaturesFromColor ==
  /\ call = NoCall /\ feature = <<>>
  /\ \E c \in QueryColours :
       /\ call' = [task |-> "get_features_from_color", rgba_number |-> c]
       /\ ret' = GetFeaturesFromColor(raster, c)
  /\ UNCHANGED <<feature, featureOrigin>>
  /\ EngineFrame

\* image.get_colour_frequencies(start_x, start_y, end_x, end_y).
RunGetColourFrequencies ==
  /\ call = NoCall /\ feature = <<>>
  /\ \E sx \in RegionXs, sy \in RegionYs, ex \in RegionXs, ey \in RegionYs :
       /\ call' = [task |-> "get_colour_frequencies", start_x |-> sx,
                   start_y |-> sy, end_x |-> ex, end_y |-> ey]
       /\ ret' \in GetColourFrequencies(raster, sx, sy, ex, ey)
  /\ UNCHANGED <<feature, featureOrigin>>
  /\ EngineFrame

SpecRegionNext ==
  \/ RunFindRgbas
  \/ RunGetFeaturesFromColor
  \/ RunGetColourFrequencies
  \/ StartOver

SpecRegion == SpecRegionInit /\ [][SpecRegionNext]_allVars

\* ========================================================================
\* SpecMatch: the tolerance rule and the mismatch budget on strips.
\* ========================================================================
\* The colours of the strips: opaque red, and the same with its alpha
\* lowered by 8.
StripColours == {<<255, 0, 0, 255>>, <<255, 0, 0, 247>>}

\* Those two, and the two colours that are furthest apart of all.
MatchColours == StripColours \cup {<<0, 0, 0, 0>>, <<255, 255, 255, 255>>}

\* The rasters: one pixel of any of the colours, or a row of four pixels of
\* the strip colours.
MatchRasters ==
  {[width |-> 1, height |-> 1, data |-> <<c>>] : c \in MatchColours}
    \cup {[width |-> 4, height |-> 1, data |-> px] : px \in [1..4 -> StripColours]}

\* The features: up to four pixels in a row from (0, 0) in the strip colours,
\* or one pixel of any of the colours.
StripFeatures ==
  UNION {{[i \in 1..n |-> Pixel(ToU32(i - 1), ToU32(0), rgba_into_rgba_number(cs[i]))] :
            cs \in [1..n -> StripColours]} : n \in 1..4}
    \cup {<<Pixel(ToU32(0), ToU32(0), rgba_into_rgba_number(c))>> : c \in MatchColours}

\* Colour tolerances: 0, just below and just above the distance 8 between
\* the strip colours (510/64 < 8 <= 510/32), one half, and 1.
FineTolerances ==
  {[n |-> 0, d |-> 1], [n |-> 1, d |-> 64], [n |-> 1, d |-> 32],
   [n |-> 1, d |-> 2], [n |-> 1, d |-> 1]}

\* Mismatch fractions: 0, one tenth (not a binary fraction: count * 0.1 is
\* 0.1, 0.2, 0.30000000000000004, 0.4 for the counts 1 to 4), a quarter, one
\* half, and 1.
MismatchFractions ==
  {[n |-> 0, d |-> 1], [n |-> 1, d |-> 10], [n |-> 1, d |-> 4],
   [n |-> 1, d |-> 2], [n |-> 1, d |-> 1]}

\* Anchors along the strip: its first and last pixel and one in between.
StripAnchors == {ToU32(0), ToU32(1), ToU32(3)}

SpecMatchInit ==
  /\ raster \in MatchRasters
  /\ EngineIdle
  /\ DeviceIdle
  /\ ActorIdle
  /\ capBackend = "windows"
  /\ CaptureIdle

\* The caller builds a Feature that is a row of pixels.
SupplyStrip ==
  /\ call = NoCall /\ feature = <<>>
  /\ feature' \in StripFeatures
  /\ featureOrigin' = CallerMade
  /\ UNCHANGED <<call, ret>>
  /\ EngineFrame

\* image.find_feature with the finer tolerances and mismatch fractions.
RunFindFeatureFine ==
  /\ call = NoCall
  /\ \E tol \in FineTolerances, mm \in MismatchFractions, overflowChecks \in BOOLEAN :
       /\ call' = [task |-> "find_feature", tol |-> tol, mm |-> mm]
       /\ ret' = FindFeatures(raster, feature, tol, mm, overflowChecks)
  /\ UNCHANGED <<feature, featureOrigin>>
  /\ EngineFrame

\* image.check_feature with the finer tolerances, anchored along the strip.
RunCheckFeatureFine ==
  /\ call = NoCall
  /\ \E x \in StripAnchors, tol \in FineTolerances, overflowChecks \in BOOLEAN :
       /\ call' = [task |-> "check_feature", x |-> x, y |-> ToU32(0), tol |-> tol]
       /\ ret' = CheckFeature(raster, x, ToU32(0), feature, tol, overflowChecks)
  /\ UNCHANGED <<feature, featureOrigin>>
  /\ EngineFrame

SpecMatchNext ==
  \/ SupplyStrip
  \/ RunFindFeatureFine
  \/ RunCheckFeatureFine
  \/ StartOver

SpecMatch == SpecMatchInit /\ [][SpecMatchNext]_allVars

\* ========================================================================
\* SpecCount: IMAGE_COUNT of image.rs under creations on several threads,
\* clones and drops.
\* ========================================================================
MaxAlive == 22

MaxLeftOver == 2

MaxClones == 2

\* A usize compared with the cap.  A count below zero stands for the wrapped
\* value 2^64 + count that fetch_sub leaves behind.
AboveCap(count) == count < 0 \/ count > ImageCap

\* The part of IMAGE_COUNT that no alive Image and no creation under way
\* accounts for.
Drift == imageCount - images - Cardinality({t \in Creators : creator[t] = "added"})

SpecCountInit ==
  /\ capBackend = "windows"
  /\ CaptureIdle
  /\ ActorIdle
  /\ raster = EmptyRaster
  /\ EngineIdle
  /\ DeviceIdle

CountFrame ==
  UNCHANGED <<vars, engineVars, listenerVars, mouseVars, capBackend, cpc, win, owners, live, acquired,
              released, capResult, failStep, osError, prevFailure, disturbed,
              computeOutcome, capSize>>

\* Image::from, first half: IMAGE_COUNT.fetch_add(1).
CreateAdd(t) ==
  /\ process = "running"
  /\ creator[t] = "idle"
  /\ imageCount < ImageCap + MaxLeftOver
  /\ imageCount' = imageCount + 1
  /\ creator' = [creator EXCEPT ![t] = "added"]
  /\ UNCHANGED <<images, lastCreation, process>>
  /\ CountFrame

\* Image::from, second half: IMAGE_COUNT.load() > 20 panics, otherwise the
\* Image is built.  A panic either takes the process down or is caught at the
\* task boundary; in both cases nothing takes the increment back.
CreateCheck(t) ==
  /\ process = "running"
  /\ creator[t] = "added"
  /\ creator' = [creator EXCEPT ![t] = "idle"]
  /\ UNCHANGED imageCount
  /\ IF AboveCap(imageCount)
     THEN /\ lastCreation' = [outcome |-> "rejected", alive |-> images, drift |-> Drift]
          /\ UNCHANGED images
          /\ \E caught \in BOOLEAN :
               process' = IF caught THEN "running" ELSE "aborted"
     ELSE /\ lastCreation' = [outcome |-> "accepted", alive |-> images, drift |-> Drift]
          /\ images' = images + 1
          /\ UNCHANGED process
  /\ CountFrame

\* derive(Clone): a second Image value; IMAGE_COUNT is not touched.
CloneImage ==
  /\ process = "running"
  /\ images > 0
  /\ images < MaxAlive
  /\ Drift > -MaxClones
  /\ images' = images + 1
  /\ UNCHANGED <<imageCount, creator, lastCreation, process>>
  /\ CountFrame

\* Drop for Image: IMAGE_COUNT.fetch_sub(1), wrapping below zero.
DropImage ==
  /\ process = "running"
  /\ images > 0
  /\ images' = images - 1
  /\ imageCount' = imageCount - 1
  /\ UNCHANGED <<creator, lastCreation, process>>
  /\ CountFrame

SpecCountNext ==
  \/ \E t \in Creators : CreateAdd(t)
  \/ \E t \in Creators : CreateCheck(t)
  \/ CloneImage
  \/ DropImage

SpecCount == SpecCountInit /\ [][SpecCountNext]_allVars

\* ========================================================================
\* SpecListener: the first GlobalListener of a process, from new() to close()
\* and after, with its dispatcher thread and its OS listener thread.
\* ========================================================================
MaxKeys == 2

MaxSubscribers == 2

ListenerBuilds == {"windows", "unsupported"}

SpecListenerInit ==
  /\ capBackend = "windows"
  /\ CaptureIdle
  /\ ActorIdle
  /\ raster = EmptyRaster
  /\ EngineIdle
  /\ CountIdle
  /\ MouseIdle
  /\ listenerBuild \in ListenerBuilds
  /\ listener = "none"
  /\ actionTx = FALSE
  /\ osTx = "none"
  /\ osThread = "not_started"
  /\ initMsg = "none"
  /\ dispatcher = "not_started"
  /\ actionQueue = <<>>
  /\ subscribers = {}
  /\ nextId = 0
  /\ keys = 0
  /\ lateDeliveries = 0

ListenerFrame ==
  UNCHANGED <<vars, captureVars, engineVars, countVars, mouseVars, listenerBuild>>

\* A Sender of the action channel is alive: recv() blocks on an empty queue.
SenderAlive == actionTx \/ osTx \in {"thread", "cell"}

\* GlobalListener::new up to init_rx.recv(): the channel, the dispatcher
\* thread, the clone of the sender and the OS listener thread.
ListenerNew ==
  /\ listener = "none"
  /\ listener' = "constructing"
  /\ actionTx' = TRUE
  /\ dispatcher' = "recv"
  /\ osTx' = "thread"
  /\ osThread' = "start"
  /\ UNCHANGED <<initMsg, actionQueue, subscribers, nextId, keys, lateDeliveries>>
  /\ ListenerFrame

\* unsupported_backend::start_listener: reports the error and returns; its
\* Sender goes out of scope.
OsStartUnsupported ==
  /\ listenerBuild = "unsupported"
  /\ osThread = "start"
  /\ initMsg' = "err_unsupported"
  /\ osTx' = "dropped"
  /\ osThread' = "returned"
  /\ UNCHANGED <<listener, actionTx, dispatcher, actionQueue, subscribers, nextId, keys,
                 lateDeliveries>>
  /\ ListenerFrame

\* windows_backend::start_listener: ACTION_TX.set(tx).  The cell is empty for
\* the first listener of the process and keeps the Sender from then on.
OsSetCell ==
  /\ listenerBuild = "windows"
  /\ osThread = "start"
  /\ osTx' = "cell"
  /\ osThread' = "hook"
  /\ UNCHANGED <<listener, actionTx, initMsg, dispatcher, actionQueue, subscribers, nextId,
                 keys, lateDeliveries>>
  /\ ListenerFrame

\* SetWindowsHookExW, then the report on init_tx.  With the hook set the
\* thread enters the GetMessageW loop.
OsSetHook ==
  /\ osThread = "hook"
  /\ \E hooked \in BOOLEAN :
       /\ initMsg' = IF hooked THEN "ok" ELSE "err_hook"
       /\ osThread' = IF hooked THEN "pump" ELSE "returned"
  /\ UNCHANGED <<listener, actionTx, osTx, dispatcher, actionQueue, subscribers, nextId,
                 keys, lateDeliveries>>
  /\ ListenerFrame

\* init_rx.recv() in new(): Ok(Ok(())) makes the object; an error drops
\* action_tx with the rest of new()'s locals.
ListenerNewReturns ==
  /\ listener = "constructing"
  /\ initMsg # "none"
  /\ listener' = IF initMsg = "ok" THEN "active" ELSE "failed"
  /\ actionTx' = (initMsg = "ok")
  /\ UNCHANGED <<osTx, osThread, initMsg, dispatcher, actionQueue, subscribers, nextId,
                 keys, lateDeliveries>>
  /\ ListenerFrame

\* subscribe(): add_subscriber.  close() leaves the object usable.
Subscribe ==
  /\ listener \in {"active", "closed"}
  /\ nextId < MaxSubscribers
  /\ subscribers' = subscribers \cup {nextId}
  /\ nextId' = nextId + 1
  /\ UNCHANGED <<listener, actionTx, osTx, osThread, initMsg, dispatcher, actionQueue,
                 keys, lateDeliveries>>
  /\ ListenerFrame

\* The closure subscribe() returned: remove_subscriber(id).
Unsubscribe ==
  /\ \E id \in subscribers : subscribers' = subscribers \ {id}
  /\ UNCHANGED <<listener, actionTx, osTx, osThread, initMsg, dispatcher, actionQueue,
                 nextId, keys, lateDeliveries>>
  /\ ListenerFrame

\* low_level_keyboard_proc on the pumping thread: handle_keydown or
\* handle_keyup sends on the Sender in ACTION_TX.
KeyEvent ==
  /\ osThread = "pump"
  /\ keys < MaxKeys
  /\ keys' = keys + 1
  /\ \E kind \in {"KeyDown", "KeyUp"} :
       actionQueue' =
         IF osTx = "cell" /\ dispatcher # "exited"
         THEN Append(actionQueue, [kind |-> kind, afterClose |-> listener = "closed"])
         ELSE actionQueue
  /\ UNCHANGED <<listener, actionTx, osTx, osThread, initMsg, dispatcher, subscribers,
                 nextId, lateDeliveries>>
  /\ ListenerFrame

\* The dispatcher's loop body: recv() returned an action, broadcast calls
\* every subscriber.
Dispatch ==
  /\ dispatcher = "recv"
  /\ actionQueue # <<>>
  /\ actionQueue' = Tail(actionQueue)
  /\ lateDeliveries' = lateDeliveries +
                         IF Head(actionQueue).afterClose THEN Cardinality(subscribers) ELSE 0
  /\ UNCHANGED <<listener, actionTx, osTx, osThread, initMsg, dispatcher, subscribers,
                 nextId, keys>>
  /\ ListenerFrame

\* recv() returns Err: the queue is empty and every Sender is gone.  The
\* loop and the thread end.
DispatcherExit ==
  /\ dispatcher = "recv"
  /\ actionQueue = <<>>
  /\ ~SenderAlive
  /\ dispatcher' = "exited"
  /\ UNCHANGED <<listener, actionTx, osTx, osThread, initMsg, actionQueue, subscribers,
                 nextId, keys, lateDeliveries>>
  /\ ListenerFrame

\* close(), also run by Drop: takes and drops action_tx and lets go of the
\* two JoinHandles, which detaches the threads.
ListenerClose ==
  /\ listener = "active"
  /\ listener' = "closed"
  /\ actionTx' = FALSE
  /\ UNCHANGED <<osTx, osThread, initMsg, dispatcher, actionQueue, subscribers, nextId,
                 keys, lateDeliveries>>
  /\ ListenerFrame

SpecListenerNext ==
  \/ ListenerNew
  \/ OsStartUnsupported
  \/ OsSetCell
  \/ OsSetHook
  \/ ListenerNewReturns
  \/ Subscribe
  \/ Unsubscribe
  \/ KeyEvent
  \/ Dispatch
  \/ DispatcherExit
  \/ ListenerClose

SpecListener == SpecListenerInit /\ [][SpecListenerNext]_allVars

\* ========================================================================
\* SpecMouse: the tasks of mouse.rs on one Mouse object.  The pointer moves
\* along the x axis between 0 and 4: at these distances humanlike_move_to
\* takes no random offset (distance <= minimum_distance) and the arc's
\* control point lies on the straight line, so a call's moves are determined
\* by the pointer, the target and the duration.  Every move of its loop is a
\* step of its own: the guard is held through the sleeps between them.
\* Beside the tasks one thread calls get_mouse_position, move_mouse and click
\* of the Herox object of lib.rs, which has an Enigo of its own and takes no
\* lock: it moves the same pointer at any time, also between two moves of a
\* task.  (Every move of Herox::humanlike_move_mouse is such a move_mouse;
\* the function as a whole is part of SpecHumanlike.)
\* ========================================================================
Step == 10

MinimumDistance == 50

MouseKinds == {"get_position", "move_to", "humanlike_move_to", "click"}

MouseCoords == 0..4

\* The mouse functions of the Herox object (lib.rs).
HeroxKinds == {"get_mouse_position", "move_mouse", "click"}

\* Targets and durations of humanlike_move_mouse: under one step (no move),
\* and one step.
HeroxTargets == {4}

HeroxDurations == {5, 10}

\* Durations in ms: under one step (no move), one step and three steps.
MouseDurations == {5, 10, 30}

SpecMouseInit ==
  /\ capBackend = "windows"
  /\ CaptureIdle
  /\ ActorIdle
  /\ raster = EmptyRaster
  /\ EngineIdle
  /\ CountIdle
  /\ ListenerIdle
  /\ holder = 0
  /\ task = [t \in MouseTasks |-> NoTask]
  /\ pointer \in MouseCoords
  /\ hl = NoHumanlike
  /\ hx = NoHerox

MouseFrame == UNCHANGED <<vars, captureVars, engineVars, countVars, listenerVars>>

\* Lets every task in, whether the mutex is held or not.
TryLock_Always(h) == TRUE

\* Mutex::try_lock() is Ok: nobody holds the mutex.
TryLock(h) == h = 0

\* Position::distance on the x axis: |a - b| as u32.
Distance(a, b) == IF a >= b THEN a - b ELSE b - a

\* The position of move t of the loop `for t in 0..n`: Position::interpolate
\* at ease_out_cubic(t / n) = 1 - ((n - t) / n)^3, with the control point at
\* the midpoint, rounded to the nearest integer.
Interpolated(start, end, t, n) ==
  LET cube == n * n * n
      rest == (n - t) * (n - t) * (n - t)
      control == (start + end) \div 2
      numerator == rest * rest * start + 2 * rest * (cube - rest) * control
                     + (cube - rest) * (cube - rest) * end
      denominator == cube * cube
  IN (2 * numerator + denominator) \div (2 * denominator)

\* No call of humanlike_move_to or humanlike_move_mouse has exhausted the
\* stack: the process lives.
MouseRunning == hx.at # "aborted" /\ \A t \in MouseTasks : task[t].pc # "aborted"

\* The guard of the task's try_lock goes out of scope: the statement is over.
Finished(t, res, acted) ==
  /\ task' = [task EXCEPT ![t].pc = "done", ![t].result = res, ![t].acted = acted]
  /\ holder' = 0

\* compute() of a mouse task up to try_lock().  A task that finds the mutex
\* held returns the error at once.
TaskCompute(t) ==
  /\ MouseRunning
  /\ task[t].pc = "idle"
  /\ \E kind \in MouseKinds, x \in MouseCoords, duration \in MouseDurations :
       LET started == [kind |-> kind, pc |-> "holding", result |-> "none",
                       acted |-> FALSE, sawHeld |-> holder # 0]
       IN IF TryLock(holder)
          THEN /\ holder' = t
               /\ task' = [task EXCEPT ![t] = started]
               /\ hl' = IF kind = "humanlike_move_to"
                        THEN [NoHumanlike EXCEPT !.target = x, !.duration = duration,
                                                 !.at = "enter"]
                        ELSE hl
          ELSE /\ task' = [task EXCEPT ![t] = [started EXCEPT
                             !.pc = "done",
                             !.result = "Only one mouse task is allowed at a time"]]
               /\ UNCHANGED <<holder, hl>>
  /\ UNCHANGED pointer
  /\ UNCHANGED hx
  /\ MouseFrame

\* MouseSync::get_position, move_to or click under the guard.  The x of a
\* move_to task is drawn here, where it is first used.
TaskOperate(t) ==
  /\ MouseRunning
  /\ task[t].pc = "holding"
  /\ task[t].kind \in {"get_position", "move_to", "click"}
  /\ \E inputOk \in BOOLEAN, x \in MouseCoords :
       /\ Finished(t, IF inputOk THEN "ok" ELSE "InputError",
                   inputOk /\ task[t].kind # "get_position")
       /\ pointer' = IF inputOk /\ task[t].kind = "move_to" THEN x ELSE pointer
  /\ UNCHANGED hl
  /\ UNCHANGED hx
  /\ MouseFrame

\* A call of humanlike_move_to under the guard, up to its loop: get_position
\* and main_display (an error returns through every caller), then
\* adjusted_duration = duration / step.  A call made by itself with the
\* duration and the pointer position its caller had makes the same call
\* again, one stack frame deeper each time, until the stack overflows and the
\* process is aborted.
HumanlikeCall(t) ==
  /\ MouseRunning
  /\ task[t].pc = "holding"
  /\ task[t].kind = "humanlike_move_to"
  /\ hl.at = "enter"
  /\ Distance(pointer, hl.target) <= MinimumDistance
  /\ \E inputOk \in BOOLEAN :
       IF ~inputOk
       THEN /\ Finished(t, "InputError", task[t].acted)
            /\ hl' = NoHumanlike
       ELSE IF hl.recursive /\ hl.callerDuration = hl.duration /\ hl.callerPointer = pointer
       THEN /\ task' = [task EXCEPT ![t].pc = "aborted"]
            /\ UNCHANGED <<holder, hl>>
       ELSE /\ hl' = [hl EXCEPT !.start = pointer, !.t = 0,
                                !.recursive = FALSE, !.callerDuration = 0,
                                !.callerPointer = 0,
                                !.at = IF hl.duration \div Step = 0 THEN "check" ELSE "loop"]
            /\ UNCHANGED <<task, holder>>
  /\ UNCHANGED pointer
  /\ UNCHANGED hx
  /\ MouseFrame

\* One turn of the loop `for t in 0..adjusted_duration`: move_to the
\* interpolated position, then thread::sleep(10 ms) with the guard held.  A
\* failing move returns the error; the moves before it were made.
HumanlikeMove(t) ==
  /\ MouseRunning
  /\ task[t].pc = "holding"
  /\ task[t].kind = "humanlike_move_to"
  /\ hl.at = "loop"
  /\ \E inputOk \in BOOLEAN :
       IF ~inputOk
       THEN /\ Finished(t, "InputError", task[t].acted)
            /\ hl' = NoHumanlike
            /\ UNCHANGED pointer
       ELSE LET adjusted_duration == hl.duration \div Step IN
            /\ pointer' = Interpolated(hl.start, hl.target, hl.t, adjusted_duration)
            /\ task' = [task EXCEPT ![t].acted = TRUE]
            /\ hl' = [hl EXCEPT !.t = hl.t + 1,
                                !.at = IF hl.t + 1 = adjusted_duration THEN "check"
                                       ELSE "loop"]
            /\ UNCHANGED holder
  /\ UNCHANGED hx
  /\ MouseFrame

\* After the loop: get_position, and the call of itself with duration -
\* adjusted_duration while the pointer is not at the target.
HumanlikeReturn(t) ==
  /\ MouseRunning
  /\ task[t].pc = "holding"
  /\ task[t].kind = "humanlike_move_to"
  /\ hl.at = "check"
  /\ \E inputOk \in BOOLEAN :
       IF ~inputOk
       THEN /\ Finished(t, "InputError", task[t].acted)
            /\ hl' = NoHumanlike
       ELSE IF Distance(pointer, hl.target) >= 1
       THEN /\ hl.depth < MaxDepth
            /\ hl' = [hl EXCEPT !.duration = hl.duration - hl.duration \div Step,
                                !.recursive = TRUE,
                                !.callerDuration = hl.duration,
                                !.callerPointer = hl.start,
                                !.depth = hl.depth + 1,
                                !.start = 0, !.t = 0, !.at = "enter"]
            /\ UNCHANGED <<task, holder>>
       ELSE /\ Finished(t, "ok", task[t].acted)
            /\ hl' = NoHumanlike
  /\ UNCHANGED pointer
  /\ UNCHANGED hx
  /\ MouseFrame

\* The task's promise is settled; the thread takes the next task.
TaskRetire(t) ==
  /\ MouseRunning
  /\ task[t].pc = "done"
  /\ task' = [task EXCEPT ![t] = NoTask]
  /\ UNCHANGED <<holder, pointer, hl>>
  /\ UNCHANGED hx
  /\ MouseFrame

\* Herox::get_mouse_position, move_mouse and click of lib.rs: one enigo call
\* on the Herox object's own Enigo, made without the mutex of MouseSync, and
\* its unwrap(), which panics the calling thread when the call failed.
HeroxOperate ==
  /\ MouseRunning
  /\ hx.at \in {"idle", "panicked"}
  /\ \E kind \in HeroxKinds, x \in MouseCoords, inputOk \in BOOLEAN :
       /\ hx' = [NoHerox EXCEPT !.at = IF inputOk THEN "idle" ELSE "panicked"]
       /\ pointer' = IF inputOk /\ kind = "move_mouse" THEN x ELSE pointer
  /\ UNCHANGED <<holder, task, hl>>
  /\ MouseFrame

\* A call of Herox::humanlike_move_mouse, by the user or by itself, up to its
\* loop: get_mouse_position (a failure panics) and adjusted_duration =
\* duration / step.  The same call made again exhausts the stack, as in
\* humanlike_move_to.
HeroxHumanlikeCall ==
  /\ MouseRunning
  /\ hx.at \in {"idle", "panicked", "enter"}
  /\ \E x \in HeroxTargets, duration \in HeroxDurations, inputOk \in BOOLEAN :
       LET entry == IF hx.at = "enter" THEN hx
                    ELSE [NoHerox EXCEPT !.target = x, !.duration = duration] IN
         /\ Distance(pointer, entry.target) <= MinimumDistance
         /\ hx' = IF ~inputOk THEN [NoHerox EXCEPT !.at = "panicked"]
                  ELSE IF entry.recursive /\ entry.callerDuration = entry.duration
                            /\ entry.callerPointer = pointer
                  THEN [NoHerox EXCEPT !.at = "aborted"]
                  ELSE [entry EXCEPT !.start = pointer, !.t = 0,
                                     !.recursive = FALSE, !.callerDuration = 0,
                                     !.callerPointer = 0,
                                     !.at = IF entry.duration \div Step = 0 THEN "check"
                                            ELSE "loop"]
  /\ UNCHANGED <<holder, task, pointer, hl>>
  /\ MouseFrame

\* One turn of the loop of humanlike_move_mouse: move_mouse to the
\* interpolated position (a failure panics), then thread::sleep(10 ms).
HeroxHumanlikeMove ==
  /\ MouseRunning
  /\ hx.at = "loop"
  /\ \E inputOk \in BOOLEAN :
       IF ~inputOk
       THEN /\ hx' = [NoHerox EXCEPT !.at = "panicked"]
            /\ UNCHANGED pointer
       ELSE LET adjusted_duration == hx.duration \div Step IN
            /\ pointer' = Interpolated(hx.start, hx.target, hx.t, adjusted_duration)
            /\ hx' = [hx EXCEPT !.t = hx.t + 1,
                                !.at = IF hx.t + 1 = adjusted_duration THEN "check"
                                       ELSE "loop"]
  /\ UNCHANGED <<holder, task, hl>>
  /\ MouseFrame

\* After the loop of humanlike_move_mouse: get_mouse_position (a failure
\* panics) and the call of itself with duration - adjusted_duration while
\* the pointer is not at the target.
HeroxHumanlikeReturn ==
  /\ MouseRunning
  /\ hx.at = "check"
  /\ \E inputOk \in BOOLEAN :
       hx' = IF ~inputOk THEN [NoHerox EXCEPT !.at = "panicked"]
             ELSE IF Distance(pointer, hx.target) >= 1
             THEN [hx EXCEPT !.duration = hx.duration - hx.duration \div Step,
                             !.recursive = TRUE,
                             !.callerDuration = hx.duration,
                             !.callerPointer = hx.start,
                             !.start = 0, !.t = 0, !.at = "enter"]
             ELSE NoHerox
  /\ UNCHANGED <<holder, task, pointer, hl>>
  /\ MouseFrame

SpecMouseNext ==
  \/ \E t \in MouseTasks : TaskCompute(t)
  \/ \E t \in MouseTasks : TaskOperate(t)
  \/ \E t \in MouseTasks : HumanlikeCall(t)
  \/ \E t \in MouseTasks : HumanlikeMove(t)
  \/ \E t \in MouseTasks : HumanlikeReturn(t)
  \/ \E t \in MouseTasks : TaskRetire(t)
  \/ HeroxOperate

SpecMouse == SpecMouseInit /\ [][SpecMouseNext]_allVars

\* ========================================================================
\* SpecHumanlike: the two humanlike moves side by side.  One mouse task at a
\* time on the Mouse object, and the thread of the Herox object with all its
\* mouse functions, humanlike_move_mouse included, move the same pointer.
\* ========================================================================
SpecHumanlikeNext ==
  \/ \E t \in 1..1 : TaskCompute(t)
  \/ \E t \in 1..1 : TaskOperate(t)
  \/ \E t \in 1..1 : HumanlikeCall(t)
  \/ \E t \in 1..1 : HumanlikeMove(t)
  \/ \E t \in 1..1 : HumanlikeReturn(t)
  \/ \E t \in 1..1 : TaskRetire(t)
  \/ HeroxOperate
  \/ HeroxHumanlikeCall
  \/ HeroxHumanlikeMove
  \/ HeroxHumanlikeReturn

SpecHumanlike == SpecMouseInit /\ [][SpecHumanlikeNext]_allVars

\* ---------------------------------------------------------------- claims
\* C1: under any interleaving of callers of send_command_to_api_thread
\* (concurrent first calls, calls after Shutdown) the request channel and the
\* worker thread are created at most once, and only once a request was made.
C1_WorkerCreatedAtMostOnce ==
  /\ channelsCreated <= 1
  /\ spawnCount <= 1
  /\ spawnCount = channelsCreated
  /\ (spawnCount = 1) = (wpc # "not_spawned")
  /\ (spawnCount = 1 => issued >= 1 /\ once = "complete")
  /\ \A c \in Callers : pc[c] # "panicked"

\* C1 witness: every caller has a request in flight at the same time, and
\* one worker exists.
C1_Witness ==
  /\ spawnCount = 1
  /\ \A c \in Callers : pc[c] = "wait"

\* C2: a caller's private reply channel holds at most one response, and it is
\* the response the worker computed for that caller's own request.
C2_RepliesNotMisrouted ==
  \A c \in Callers :
    /\ Len(chan[c].msgs) <= 1
    /\ \A i \in 1..Len(chan[c].msgs) :
         /\ pc[c] = "wait"
         /\ chan[c].msgs[i].ticket = myTicket[c]

\* C2 witness: two callers each have their own response waiting to be read.
C2_Witness ==
  /\ \A c \in Callers : Len(chan[c].msgs) = 1
  /\ \E c, d \in Callers : chan[c].msgs[1].variant # chan[d].msgs[1].variant

\* C3 (as claimed): every native window/display call runs on the worker
\* thread, never on a calling thread, so at most one is in progress.
C3_NativeOnlyOnWorker == InNative \subseteq {Worker}

\* C4 (as claimed): the worker ends only after it received Shutdown; no other
\* command, no OS failure and no undeliverable reply ends it.  (The Sender in
\* the static cell is never dropped, so the channel never closes.)
C4_WorkerEndsOnlyOnShutdown ==
  wpc \in {"exiting", "exited"} \cup Panicked => current.cmd = "Shutdown"

\* C5 (as claimed): a caller that sends Shutdown receives Acknowledgement
\* (left aside: the runs in which the worker panicked).
C5_ShutdownAlwaysAcknowledged ==
  \A c \in Callers :
    (pc[c] = "done" /\ op[c] = "shutdown" /\ wpc \notin Panicked)
      => result[c] = "Acknowledgement"

\* C5 (amended): a Shutdown that the worker dequeues is answered with
\* Acknowledgement, which its waiting caller receives; a
\* Shutdown sent after the worker ended, or still queued when it ends, returns
\* a Send or Receive error.  Once the worker has dequeued Shutdown it executes
\* no further command.
C5_ShutdownAmended ==
  /\ current.cmd = "Shutdown" =>
       /\ wpc \in {"reply", "exiting", "exited"}
       /\ response.variant = "Acknowledgement"
       /\ served = current.ticket
  /\ \A c \in Callers :
       (pc[c] = "done" /\ op[c] = "shutdown") =>
         /\ result[c] \in {"Acknowledgement", "ApiError_Send", "ApiError_Receive"}
         /\ (result[c] = "Acknowledgement") =
              (current.caller = c /\ current.ticket = myTicket[c] /\ current.cmd = "Shutdown")

\* C5 witness: one Shutdown was acknowledged and the worker has ended, and a
\* second Shutdown came back with an error.
C5_Witness ==
  /\ wpc = "exited"
  /\ \E c, d \in Callers :
       /\ pc[c] = "done" /\ op[c] = "shutdown" /\ result[c] = "Acknowledgement"
       /\ pc[d] = "done" /\ op[d] = "shutdown" /\ result[d] = "ApiError_Receive"

\* C7: the worker receives the requests in the order they were sent, and has
\* replied to each request before it receives the next.
C7_FifoOneAtATime ==
  /\ \A i \in 1..Len(queue) : queue[i].ticket = served + i
  /\ wpc \in {"native", "reply"} => current.ticket = served
  /\ served > 0 => current.ticket = served
  /\ replied \in {served, served - 1}
  /\ wpc = "recv" => replied = served

\* C7 witness: the worker is executing the first of two requests
\* that were queued together, the second still waiting on the channel.
C7_Witness ==
  /\ wpc = "native"
  /\ Len(queue) = 1
  /\ current.ticket = 1
  /\ queue[1].ticket = 2

\* C8: on the build with no native implementation every entry point returns
\* the platform-unsupported error, and no channel or worker is ever created
\* and no native call made.
C8_UnsupportedAlwaysErrors ==
  facade = "unsupported" =>
    /\ spawnCount = 0
    /\ channelsCreated = 0
    /\ wpc = "not_spawned"
    /\ InNative = {}
    /\ \A c \in Callers :
         /\ pc[c] \in {"idle", "done"}
         /\ pc[c] = "done" => result[c] = "UnsupportedPlatform"

\* C8 witness: window enumeration and a capture both returned the error.
C8_Witness ==
  /\ facade = "unsupported"
  /\ \E c, d \in Callers :
       /\ pc[c] = "done" /\ op[c] = "all" /\ result[c] = "UnsupportedPlatform"
       /\ pc[d] = "done" /\ op[d] = "capture_image" /\ result[d] = "UnsupportedPlatform"

\* The responses a facade method's match accepts for its command.
Expected(cmd, r) ==
  \/ r.variant = SuccessVariant(cmd)
  \/ r.variant = "Error" /\ r.err = cmd

\* C9: the worker answers every command with that command's success variant
\* or that command's Error, so no facade method reaches UnexpectedResponse.
C9_NoUnexpectedResponse ==
  /\ wpc = "reply" => Expected(current.cmd, response)
  /\ \A c \in Callers :
       /\ result[c] # "UnexpectedResponse"
       /\ \A i \in 1..Len(chan[c].msgs) : Expected(CommandOf(op[c]), chan[c].msgs[i])

\* C9 witness: on the Windows facade a capture returned its command's error and
\* a title call (which has no error arm) returned Ok.
C9_Witness ==
  /\ facade = "windows_backend"
  /\ \E c, d \in Callers :
       /\ pc[c] = "done" /\ op[c] = "capture_image" /\ result[c] = "CommandError"
       /\ pc[d] = "done" /\ op[d] = "title" /\ result[d] = "Ok"

\* C10 (as claimed): the worker thread never panics because an OS call failed,
\* from its start-up on.
C10_WorkerNeverPanics == wpc # "panicked_startup"

\* C11 (as claimed): a capture whose window was minimized or destroyed at some
\* point between the geometry lookup and the pixel copy returns the
\* minimized-window or the stale-handle error, never a raster.
C11_DisturbedCaptureIsRefused ==
  (cpc = "returned" /\ disturbed) =>
    (capResult.kind = "error"
     /\ capResult.variant \in {"IsMinimized", "HandleNoLongerValid"})

\* C12: in the Windows capture no resource is released more often than it was
\* acquired, and once capture_window_image_internal has returned (the worker
\* on its way back to recv) or has unwound in a panic, every acquired window
\* DC, memory DC and bitmap has been released exactly once and none is held.
C12_CaptureResourcesReleasedOnce ==
  capBackend = "windows" =>
    /\ \A r \in Resources : released[r] <= acquired[r] /\ acquired[r] <= 1
    /\ live = {r \in Resources : acquired[r] > released[r]}
    /\ cpc \in {"returned", "idle", "panicked", "worker_gone"} =>
         /\ live = {}
         /\ \A r \in Resources : released[r] = acquired[r]

\* A capture that failed at BitBlt, with all three resources acquired before,
\* has returned and each was released once.
C12_Witness ==
  /\ capBackend = "windows"
  /\ cpc = "returned"
  /\ failStep = "bit_blt"
  /\ \A r \in Resources : acquired[r] = 1 /\ released[r] = 1

\* C13 (as claimed): two captures that failed at different steps never carry
\* the same error variant, and a variant with a payload carries what the OS
\* supplied at the failing step.
C13_EachStepHasItsOwnVariant ==
  capResult.kind = "error" =>
    /\ (prevFailure.step # "none" /\ prevFailure.step # failStep)
         => capResult.variant # prevFailure.variant
    /\ CarriesPayload(capResult.variant) => capResult.payload = osError

\* C14 (as claimed): AsyncCaptureImage::compute never panics: with the cap of
\* live Images reached it returns an error.
C14_ImageCapIsRecoverable == computeOutcome # "panicked"

\* The pixel of raster R at the integer position (x, y).
RasterAt(R, x, y) == R.data[y * R.width + x + 1]

\* C15: find_rgbas returns one Pixel for each position of the raster whose
\* four channels equal those of the colour asked for, with that position and
\* rgba equal to the colour, nothing else, in row-major order without repeats.
C15_FindRgbasExactAndOrdered ==
  call.task = "find_rgbas" =>
    /\ ret.status = "ok"
    /\ LET C == call.rgba_number
           ch == rgba_number_into_rgba(C)
           out == ret.value
           W == raster.width
           matches == {m \in (0..(W - 1)) \X (0..(raster.height - 1)) :
                         \A i \in 1..4 : RasterAt(raster, m[1], m[2])[i] = ch[i]}
       IN /\ \A i \in 1..Len(out) :
               /\ out[i].rgba = C
               /\ out[i].x[1] = 0 /\ out[i].y[1] = 0
               /\ <<out[i].x[2], out[i].y[2]>> \in matches
          /\ \A m \in matches :
               \E i \in 1..Len(out) : out[i].x = ToU32(m[1]) /\ out[i].y = ToU32(m[2])
          /\ \A i, j \in 1..Len(out) :
               i < j => out[i].y[2] * W + out[i].x[2] < out[j].y[2] * W + out[j].x[2]

\* find_rgbas found the colour at two positions or more of a raster that also
\* holds a pixel differing from it in alpha only.
C15_Witness ==
  /\ call.task = "find_rgbas"
  /\ ret.status = "ok"
  /\ Len(ret.value) >= 2
  /\ Len(ret.value) < Len(raster.data)

\* The feature's bounding box, max - min + 1 in each direction taken as a
\* mathematical integer, is at most as wide and as high as the raster.
BoxFits(F, R) ==
  LET box == FeatureBox(F) IN
  /\ LtU32(SubU32(box.maxX, box.minX), ToU32(R.width))
  /\ LtU32(SubU32(box.maxY, box.minY), ToU32(R.height))

\* C16: for a non-empty feature whose bounding box fits in the raster,
\* find_feature reports exactly the top-left positions of the sliding window
\* at which the number of mismatching feature pixels, counted over the whole
\* feature, is within the budget round(total * mismatch fraction), each once
\* and with the raster's colour at that position.
C16_FindFeatureReportsExactlyTheMatches ==
  (call.task = "find_feature" /\ feature # <<>> /\ BoxFits(feature, raster)) =>
    /\ ret.status = "ok"
    /\ LET box == FeatureBox(feature)
           w == SubU32(box.maxX, box.minX)[2] + 1
           h == SubU32(box.maxY, box.minY)[2] + 1
           budget == RoundPct(Len(feature), call.mm)
           Mismatching(x, y) ==
             {i \in 1..Len(feature) :
                ExceedsTolerance(
                  ColorDistanceSq(
                    feature[i].rgba,
                    rgba_into_rgba_number(
                      RasterAt(raster, x + SubU32(feature[i].x, box.minX)[2],
                                       y + SubU32(feature[i].y, box.minY)[2])),
                    TRUE),
                  call.tol)}
           expected == {m \in (0..(raster.width - w)) \X (0..(raster.height - h)) :
                          Cardinality(Mismatching(m[1], m[2])) <= budget}
           out == ret.value
       IN /\ {<<out[i].x, out[i].y>> : i \in 1..Len(out)}
               = {<<ToU32(m[1]), ToU32(m[2])>> : m \in expected}
          /\ Len(out) = Cardinality(expected)
          /\ \A i \in 1..Len(out) :
               out[i].rgba =
                 rgba_into_rgba_number(RasterAt(raster, out[i].x[2], out[i].y[2]))

\* find_feature with a budget of 0 and a feature of two pixels side by side
\* reported one position of the window and passed over the other, where the
\* scan was left at a mismatch.
C16_Witness ==
  /\ call.task = "find_feature"
  /\ Len(feature) = 2
  /\ BoxFits(feature, raster)
  /\ FeatureBox(feature).minX # FeatureBox(feature).maxX
  /\ call.mm.n = 0
  /\ ret.status = "ok"
  /\ Len(ret.value) = 1
  /\ raster.width = 2 /\ raster.height = 2

\* C17: find_feature with colour tolerance 0 and mismatch fraction 0, given
\* the Feature that get_feature returned for a rectangle of the same raster,
\* reports the rectangle's top-left corner.
C17_ExtractedFeatureIsFoundAtItsCorner ==
  (call.task = "find_feature" /\ featureOrigin.kind = "get_feature"
     /\ call.tol.n = 0 /\ call.mm.n = 0) =>
    /\ ret.status = "ok"
    /\ \E i \in 1..Len(ret.value) :
         ret.value[i].x = featureOrigin.minX /\ ret.value[i].y = featureOrigin.minY

\* The rectangle starts away from the origin and has two pixels or more.
C17_Witness ==
  /\ call.task = "find_feature"
  /\ featureOrigin.kind = "get_feature"
  /\ call.tol.n = 0 /\ call.mm.n = 0
  /\ featureOrigin.minX = ToU32(1)
  /\ Len(feature) >= 2
  /\ ret.status = "ok"
  /\ Len(ret.value) >= 1

\* C18: check_feature with tolerance 0, anchored at the top-left corner of the
\* rectangle whose Feature get_feature returned, scores exactly 1.0: every
\* pixel of the feature matches.
C18_ExtractedFeatureScoresOne ==
  (call.task = "check_feature" /\ featureOrigin.kind = "get_feature"
     /\ call.tol.n = 0
     /\ call.x = featureOrigin.minX /\ call.y = featureOrigin.minY) =>
    /\ ret.status = "ok"
    /\ ret.value = <<Len(feature), Len(feature)>>
    /\ Len(feature) > 0

\* The rectangle starts away from the origin in both directions' reach and the
\* raster holds both colours.
C18_Witness ==
  /\ call.task = "check_feature"
  /\ featureOrigin.kind = "get_feature"
  /\ call.tol.n = 0
  /\ call.x = featureOrigin.minX /\ call.y = featureOrigin.minY
  /\ featureOrigin.minX = ToU32(1)
  /\ \E i, j \in 1..Len(raster.data) : raster.data[i] # raster.data[j]
  /\ ret.status = "ok"

\* C19 (as claimed): for a non-empty feature whose bounding box is wider or
\* higher than the raster, find_feature returns the empty list: no error, no
\* panic, whatever the coordinates, the tolerance and the mismatch fraction.
C19_OversizedFeatureFindsNothing ==
  (call.task = "find_feature" /\ feature # <<>> /\ ~BoxFits(feature, raster)) =>
    ret = Ok(<<>>)

\* C20: with an empty feature check_feature fails with the error "This
\* feature has no pixels" for every anchor and tolerance, and find_feature
\* returns the empty list without error for every tolerance and mismatch
\* fraction.
C20_EmptyFeature ==
  feature = <<>> =>
    /\ call.task = "check_feature" => ret = Err("This feature has no pixels")
    /\ call.task = "find_feature" => ret = Ok(<<>>)

\* check_feature was given an empty feature and an anchor at the far end of
\* the u32 range.
C20_Witness ==
  /\ feature = <<>>
  /\ call.task = "check_feature"
  /\ call.x = U32Max
  /\ ret.status = "err"

\* The feature's box, placed with its top-left corner at coordinate at,
\* reaches past size: at + (hi - lo + 1) > size over the integers.
ReachesPast(at, lo, hi, size) ==
  LET far == AddU32(at, SubU32(hi, lo)) IN
  far.overflow \/ LeU32(ToU32(size), far.value)

\* C21 (as claimed): for a non-empty feature check_feature returns the
\* bounds error, and neither panics nor goes on to a score, for every anchor
\* of the u32 range at which the placed feature reaches past the raster's
\* width or height, anchors whose sum with the extent leaves the u32 range
\* included.
C21_AnchorBeyondRasterIsRefused ==
  (/\ call.task = "check_feature"
   /\ feature # <<>>
   /\ LET box == FeatureBox(feature) IN
      \/ ReachesPast(call.x, box.minX, box.maxX, raster.width)
      \/ ReachesPast(call.y, box.minY, box.maxY, raster.height)) =>
    ret = Err("Feature, when placed at the given top_left point, extends beyond image boundaries.")

\* C22: for a non-empty feature that lies fully inside the raster when placed
\* at the anchor, check_feature returns matched / total: matched the number
\* of feature pixels within the tolerance of the raster pixel at
\* (x + px - minX, y + py - minY), total the number of feature pixels.  The
\* score lies between 0 and 1, is 1 exactly when every pixel matches and 0
\* exactly when none does.
C22_ScoreIsMatchedOverTotal ==
  (/\ call.task = "check_feature"
   /\ feature # <<>>
   /\ LET box == FeatureBox(feature) IN
      /\ ~ReachesPast(call.x, box.minX, box.maxX, raster.width)
      /\ ~ReachesPast(call.y, box.minY, box.maxY, raster.height)) =>
    LET box == FeatureBox(feature)
        Matched ==
          {i \in 1..Len(feature) :
             ~ExceedsTolerance(
                ColorDistanceSq(
                  feature[i].rgba,
                  rgba_into_rgba_number(
                    RasterAt(raster, call.x[2] + SubU32(feature[i].x, box.minX)[2],
                                     call.y[2] + SubU32(feature[i].y, box.minY)[2])),
                  TRUE),
                call.tol)}
    IN /\ ret.status = "ok"
       /\ ret.value = <<Cardinality(Matched), Len(feature)>>
       /\ 0 <= ret.value[1] /\ ret.value[1] <= ret.value[2] /\ ret.value[2] > 0
       /\ ret.value[1] = ret.value[2] <=> Matched = 1..Len(feature)
       /\ ret.value[1] = 0 <=> Matched = {}

\* check_feature, anchored away from the origin, scored one half: one of the
\* feature's two pixels matched the raster and the other did not.
C22_Witness ==
  /\ call.task = "check_feature"
  /\ call.x = ToU32(1)
  /\ Len(feature) = 2
  /\ feature[1].y # feature[2].y
  /\ ret = Ok(<<1, 2>>)

\* C23: with both corners inside the raster get_feature returns exactly
\* (maxX - minX + 1) * (maxY - minY + 1) pixels, one for each cell (x, y) of
\* the inclusive normalised rectangle, with the coordinates (x - minX,
\* y - minY) and the raster's colour at (x, y); with a corner whose x is at
\* least the width or whose y is at least the height it fails with a bounds
\* error and the caller gets no Feature.
C23_GetFeatureCoversTheRectangle ==
  call.task = "get_feature" =>
    LET minX == MinU32({call.start_x, call.end_x})[2]
        maxX == MaxU32({call.start_x, call.end_x})[2]
        minY == MinU32({call.start_y, call.end_y})[2]
        maxY == MaxU32({call.start_y, call.end_y})[2]
    IN IF maxX < raster.width /\ maxY < raster.height
       THEN /\ ret.status = "ok"
            /\ feature = ret.value
            /\ Len(ret.value) = (maxX - minX + 1) * (maxY - minY + 1)
            /\ \A x \in minX..maxX, y \in minY..maxY :
                 \E i \in 1..Len(ret.value) :
                   ret.value[i] =
                     Pixel(ToU32(x - minX), ToU32(y - minY),
                           rgba_into_rgba_number(RasterAt(raster, x, y)))
       ELSE /\ ret.status = "err"
            /\ ret.reason \in {"Start point is outside image boundaries.",
                               "End point is outside image boundaries."}
            /\ feature = <<>>

\* get_feature took the whole of a 2x2 raster holding both colours, its
\* corners given bottom-left first.
C23_Witness ==
  /\ call.task = "get_feature"
  /\ call.start_x = ToU32(0) /\ call.start_y = ToU32(1)
  /\ call.end_x = ToU32(1) /\ call.end_y = ToU32(0)
  /\ ret.status = "ok"
  /\ Len(ret.value) = 4
  /\ ret.value[1].rgba # ret.value[4].rgba

\* C24: get_feature gives the same result for the four ways of naming the
\* two opposite corners of a rectangle, (x0, y0, x1, y1), (x1, y1, x0, y0),
\* (x0, y1, x1, y0) and (x1, y0, x0, y1): the same pixels in the same order,
\* or a failure for all four.
C24_CornerOrderDoesNotMatter ==
  call.task = "get_feature" =>
    LET x0 == call.start_x
        y0 == call.start_y
        x1 == call.end_x
        y1 == call.end_y
        others == {GetFeature(raster, x1, y1, x0, y0),
                   GetFeature(raster, x0, y1, x1, y0),
                   GetFeature(raster, x1, y0, x0, y1)}
    IN \A r \in others :
         /\ r.status = ret.status
         /\ ret.status = "ok" => r.value = ret.value

\* get_feature took the whole of a 2x2 raster holding both colours, its
\* corners given bottom-right first.
C24_Witness ==
  /\ call.task = "get_feature"
  /\ call.start_x = ToU32(1) /\ call.start_y = ToU32(1)
  /\ call.end_x = ToU32(0) /\ call.end_y = ToU32(0)
  /\ ret.status = "ok"
  /\ Len(ret.value) = 4
  /\ \E i \in 1..4 : ret.value[i].rgba # ret.value[1].rgba

\* The sum of the counts of a list of ColourFrequency entries.
RECURSIVE SumCounts(_)
SumCounts(out) ==
  IF Len(out) = 0 THEN 0 ELSE out[1].count + SumCounts(Tail(out))

\* C25: for a rectangle whose normalised corners lie inside the raster,
\* get_colour_frequencies returns exactly one entry for each distinct colour
\* of the inclusive rectangle, its count the number of cells of that colour;
\* the counts add up to the rectangle's area; the entries are the same for
\* the other ways of naming the two corners.  With a corner outside the
\* raster it fails with the bounds error.
C25_ColourFrequenciesCountTheRectangle ==
  call.task = "get_colour_frequencies" =>
    LET minX == MinU32({call.start_x, call.end_x})[2]
        maxX == MaxU32({call.start_x, call.end_x})[2]
        minY == MinU32({call.start_y, call.end_y})[2]
        maxY == MaxU32({call.start_y, call.end_y})[2]
        cells == (minX..maxX) \X (minY..maxY)
        ColourAt(c) == rgba_into_rgba_number(RasterAt(raster, c[1], c[2]))
        out == ret.value
        Entries(s) == {s[i] : i \in 1..Len(s)}
    IN IF maxX < raster.width /\ maxY < raster.height
       THEN /\ ret.status = "ok"
            /\ \A c \in cells : \E i \in 1..Len(out) : out[i].rgba = ColourAt(c)
            /\ \A i, j \in 1..Len(out) : i # j => out[i].rgba # out[j].rgba
            /\ \A i \in 1..Len(out) :
                 /\ out[i].count = Cardinality({c \in cells : ColourAt(c) = out[i].rgba})
                 /\ out[i].count > 0
            /\ SumCounts(out) = (maxX - minX + 1) * (maxY - minY + 1)
            /\ \A r \in GetColourFrequencies(raster, call.end_x, call.end_y,
                                             call.start_x, call.start_y)
                     \cup GetColourFrequencies(raster, call.start_x, call.end_y,
                                               call.end_x, call.start_y)
                     \cup GetColourFrequencies(raster, call.end_x, call.start_y,
                                               call.start_x, call.end_y) :
                 r.status = "ok" /\ Entries(r.value) = Entries(out)
       ELSE ret = Err("Coordinates are outside image boundaries.")

\* get_colour_frequencies counted three colours in the left column of a 2x9
\* raster, the corners given bottom first, the background first in the list.
C25_Witness ==
  /\ call.task = "get_colour_frequencies"
  /\ call.start_x = ToU32(0) /\ call.end_x = ToU32(0)
  /\ call.start_y = ToU32(8) /\ call.end_y = ToU32(0)
  /\ ret.status = "ok"
  /\ Len(ret.value) = 3
  /\ ret.value[1] = ColourFrequency(rgba_into_rgba_number(OpaqueBlack), 6)
  /\ ret.value[2].count = 2

\* Pixel p comes before pixel q in the ascending order of (x, y).
Before(p, q) == p.x[2] < q.x[2] \/ (p.x[2] = q.x[2] /\ p.y[2] < q.y[2])

\* Two pixels are within the clustering radius of 5 of each other.
WithinRadius(p, q) ==
  (p.x[2] - q.x[2]) * (p.x[2] - q.x[2]) + (p.y[2] - q.y[2]) * (p.y[2] - q.y[2]) <= 25

\* C26: get_features_from_color gives the result of the single pass over the
\* pixels that equal the colour, taken in ascending order of (x, y): each
\* pixel joins the earliest created group that already has a member within
\* the radius 5 (dx * dx + dy * dy <= 25), or else starts a new group.  The
\* groups are in the order of their creation, their members in the order in
\* which they joined, and every matching pixel is in exactly one group.
C26_ExtractFeaturesIsTheSinglePass ==
  call.task = "get_features_from_color" =>
    /\ ret.status = "ok"
    /\ LET G == ret.value
           C == call.rgba_number
           Slots == {s \in (1..Len(G)) \X (1..Cardinality(MarkCells)) : s[2] <= Len(G[s[1]])}
           At(s) == G[s[1]][s[2]]
           matches == {m \in (0..(raster.width - 1)) \X (0..(raster.height - 1)) :
                         rgba_into_rgba_number(RasterAt(raster, m[1], m[2])) = C}
       IN /\ \A g \in 1..Len(G) : Len(G[g]) \in 1..Cardinality(MarkCells)
          /\ \A s \in Slots : At(s).rgba = C /\ At(s).x[1] = 0 /\ At(s).y[1] = 0
          /\ {<<At(s).x[2], At(s).y[2]>> : s \in Slots} = matches
          /\ Cardinality(Slots) = Cardinality(matches)
          /\ \A s, t \in Slots :
               (s[1] = t[1] /\ s[2] < t[2]) => Before(At(s), At(t))
          /\ \A g, h \in 1..Len(G) : g < h => Before(G[g][1], G[h][1])
          /\ \A s \in Slots :
               /\ \A t \in Slots :
                    (t[1] < s[1] /\ Before(At(t), At(s))) => ~WithinRadius(At(t), At(s))
               /\ s[2] > 1 =>
                    \E t \in Slots :
                      t[1] = s[1] /\ t[2] < s[2] /\ WithinRadius(At(t), At(s))

\* get_features_from_color made two groups out of three pixels of the colour,
\* on a raster that has a mark of the other colour too.
C26_Witness ==
  /\ call.task = "get_features_from_color"
  /\ ret.status = "ok"
  /\ Len(ret.value) = 2
  /\ Len(ret.value[1]) = 2 /\ Len(ret.value[2]) = 1
  /\ \E k \in 1..Len(raster.data) :
       raster.data[k] \in RasterColours \ {rgba_number_into_rgba(call.rgba_number)}

\* The feature's pixel i, with the feature placed at (x, 0), is within the
\* tolerance n/d of the raster pixel under it: the Euclidean distance over
\* the four channels is at most 510 * n / d, compared as squares.
WithinTolerance(i, x, tol) ==
  LET f == rgba_number_into_rgba(feature[i].rgba)
      r == RasterAt(raster, x + feature[i].x[2] - FeatureBox(feature).minX[2], 0)
      distSq == (f[1] - r[1]) * (f[1] - r[1]) + (f[2] - r[2]) * (f[2] - r[2])
                  + (f[3] - r[3]) * (f[3] - r[3]) + (f[4] - r[4]) * (f[4] - r[4])
  IN distSq * tol.d * tol.d <= 510 * 510 * tol.n * tol.n

\* The positions at which the feature lies inside the strip.
StripPositions == 0..(raster.width - Len(feature))

\* C27: in find_feature and in check_feature alike a feature pixel matches a
\* raster pixel exactly when the Euclidean distance of the two colours over
\* all four channels, alpha included, is at most the tolerance times 510.
\* With the tolerance 0 only identical colours match, with the tolerance 1
\* any two colours match.
C27_ToleranceRule ==
  (feature # <<>> /\ Len(feature) <= raster.width) =>
    /\ (call.task = "check_feature" /\ call.x[2] \in StripPositions) =>
         /\ ret.status = "ok"
         /\ ret.value[1] =
              Cardinality({i \in 1..Len(feature) : WithinTolerance(i, call.x[2], call.tol)})
         /\ call.tol.n = 0 =>
              ret.value[1] =
                Cardinality({i \in 1..Len(feature) :
                  rgba_number_into_rgba(feature[i].rgba)
                    = RasterAt(raster, call.x[2] + feature[i].x[2], 0)})
         /\ call.tol.n = call.tol.d => ret.value[1] = Len(feature)
    /\ (call.task = "find_feature" /\ call.mm.n = 0) =>
         /\ ret.status = "ok"
         /\ {ret.value[k].x[2] : k \in 1..Len(ret.value)} =
              {x \in StripPositions :
                 \A i \in 1..Len(feature) : WithinTolerance(i, x, call.tol)}
         /\ call.tol.n = 0 =>
              {ret.value[k].x[2] : k \in 1..Len(ret.value)} =
                {x \in StripPositions :
                   \A i \in 1..Len(feature) :
                     rgba_number_into_rgba(feature[i].rgba)
                       = RasterAt(raster, x + feature[i].x[2], 0)}
         /\ call.tol.n = call.tol.d =>
              {ret.value[k].x[2] : k \in 1..Len(ret.value)} = StripPositions

\* check_feature with the tolerance 1 matched a transparent black pixel with
\* an opaque white one, the two colours being 510 apart.
C27_Witness ==
  /\ call.task = "check_feature"
  /\ call.tol = [n |-> 1, d |-> 1]
  /\ feature = <<Pixel(ToU32(0), ToU32(0), ToU32(0))>>
  /\ raster.data = << <<255, 255, 255, 255>> >>
  /\ ret = Ok(<<1, 1>>)

\* C28: the mismatch budget of find_feature is the number of feature pixels
\* times the mismatch fraction, rounded to the nearest integer with halves
\* away from zero: 2 pixels at 25% give the budget 1, 4 pixels at 10% give 0.
\* A position is reported exactly when the number of its mismatching pixels
\* is at most the budget.
C28_MismatchBudget ==
  (call.task = "find_feature" /\ feature # <<>> /\ Len(feature) <= raster.width) =>
    LET total == Len(feature)
        budget == CHOOSE k \in 0..total :
                    /\ 2 * call.mm.d * k <= 2 * total * call.mm.n + call.mm.d
                    /\ 2 * total * call.mm.n + call.mm.d < 2 * call.mm.d * (k + 1)
        Mismatches(x) ==
          Cardinality({i \in 1..total : ~WithinTolerance(i, x, call.tol)})
    IN /\ ret.status = "ok"
       /\ {ret.value[k].x[2] : k \in 1..Len(ret.value)} =
            {x \in StripPositions : Mismatches(x) <= budget}
       /\ (total = 2 /\ call.mm = [n |-> 1, d |-> 4]) => budget = 1
       /\ (total = 4 /\ call.mm = [n |-> 1, d |-> 10]) => budget = 0

\* find_feature with a feature of 2 pixels and the mismatch fraction 25%
\* reported a position at which one of the two pixels mismatches.
C28_Witness ==
  /\ call.task = "find_feature"
  /\ Len(feature) = 2
  /\ call.mm = [n |-> 1, d |-> 4]
  /\ call.tol.n = 0
  /\ ret.status = "ok"
  /\ \E k \in 1..Len(ret.value) :
       Cardinality({i \in 1..2 : ~WithinTolerance(i, ret.value[k].x[2], call.tol)}) = 1

\* C29 (as claimed): on the 4x4 raster that is black except for opaque red
\* 0xFF0000FF at (2, 2), find_rgbas(0xFF0000FF) returns the one pixel
\* {x: 2, y: 2, rgba: 0xFF0000FF}, get_features_from_color(0xFF0000FF) returns
\* one feature of that single pixel, and get_colour_frequencies(0, 0, 3, 3)
\* returns the list [{rgba: black, count: 15}, {rgba: 0xFF0000FF, count: 1}].
C29_ScenarioResults ==
  raster = ScenarioRaster =>
    LET red == rgba_into_rgba_number(<<255, 0, 0, 255>>)
        black == rgba_into_rgba_number(OpaqueBlack)
        redPixel == Pixel(ToU32(2), ToU32(2), red)
    IN /\ (call.task = "find_rgbas" /\ call.rgba_number = red) =>
            ret = Ok(<<redPixel>>)
       /\ (call.task = "get_features_from_color" /\ call.rgba_number = red) =>
            ret = Ok(<< <<redPixel>> >>)
       /\ call = [task |-> "get_colour_frequencies", start_x |-> ToU32(0),
                  start_y |-> ToU32(0), end_x |-> ToU32(3), end_y |-> ToU32(3)] =>
            ret = Ok(<<ColourFrequency(black, 15), ColourFrequency(red, 1)>>)

\* The cells (0, 0), (0, 8) and (1, 4) have the colour asked for and no other
\* cell has it.
ThreeMarksMatch ==
  /\ raster.width = 2 /\ raster.height = 9
  /\ \A x \in 0..1, y \in 0..8 :
       rgba_into_rgba_number(RasterAt(raster, x, y)) = call.rgba_number
         <=> <<x, y>> \in {<<0, 0>>, <<0, 8>>, <<1, 4>>}

\* C30: get_features_from_color does not compute the connected components of
\* the radius relation.  On a raster whose matching pixels are (0, 0), (0, 8)
\* and (1, 4), the pixel (1, 4) lies within the radius of both others and
\* links them, yet (0, 8) is left in a feature of its own: the result is
\* [[(0, 0), (1, 4)], [(0, 8)]].
C30_NotConnectedComponents ==
  (call.task = "get_features_from_color" /\ ThreeMarksMatch) =>
    LET C == call.rgba_number IN
    ret = Ok(<< <<Pixel(ToU32(0), ToU32(0), C), Pixel(ToU32(1), ToU32(4), C)>>,
                <<Pixel(ToU32(0), ToU32(8), C)>> >>)

\* Two pixels of different features of one result are within the radius of
\* each other.
C30_Witness ==
  /\ call.task = "get_features_from_color"
  /\ ret.status = "ok"
  /\ \E g, h \in 1..Len(ret.value) :
       /\ g # h
       /\ \E i \in 1..Len(ret.value[g]), j \in 1..Len(ret.value[h]) :
            WithinRadius(ret.value[g][i], ret.value[h][j])

\* A manual capture has returned.
ManualReturned == capBackend \in ManualRoutines /\ cpc = "returned"

\* C31 (as claimed): in both hand-paired capture routines the window DC, the
\* memory DC and the bitmap acquired during a capture are each released on
\* every exit: the early returns, the GetDIBits failure and the success.
C31_ManualCaptureReleasesAll ==
  ManualReturned => (live = {} /\ \A r \in Resources : released[r] = acquired[r])

\* The worker thread has ended: it returned after Shutdown, or it panicked.
WorkerGone == wpc \in {"exited", "panicked_startup", "panicked_native"}

\* C32: no caller of send_command_to_api_thread blocks for ever once the
\* worker has ended.  A caller about to send then gets the Send error; a
\* caller waiting for a response that was never sent gets the Receive error.
C32_NoCallerBlocksForever ==
  \A c \in Callers :
    /\ (WorkerGone /\ pc[c] = "send")
         ~> (pc[c] = "done" /\ result[c] = "ApiError_Send")
    /\ (WorkerGone /\ pc[c] = "wait" /\ chan[c].msgs = <<>>)
         ~> (pc[c] = "done" /\ result[c] = "ApiError_Receive")

\* The worker ended with a request still queued, and the request's caller
\* came back with the Receive error.
C32_Witness ==
  /\ WorkerGone
  /\ served < sent
  /\ \E c \in Callers : pc[c] = "done" /\ result[c] = "ApiError_Receive"

\* No Image::from is between its fetch_add and its load.
NoCreationUnderWay == \A t \in Creators : creator[t] = "idle"

\* C33: after any sequence of Image creations, clones and drops IMAGE_COUNT
\* equals the number of Image values alive; it never underflows, and a
\* rejected creation leaves it as it was.
C33_CountEqualsAlive ==
  /\ imageCount >= 0
  /\ NoCreationUnderWay => imageCount = images

\* C34: under any interleaving of creations and drops a creation is rejected
\* only if accepting it would make more than 20 Images alive, and accepted
\* whenever at most 20 would then be alive.  Stated for the creations at whose
\* check IMAGE_COUNT had not drifted from the Images alive and under way.
C34_RejectedOnlyWhenFull ==
  lastCreation.drift = 0 =>
    /\ lastCreation.outcome = "rejected" => lastCreation.alive + 1 > ImageCap
    /\ lastCreation.outcome = "accepted" => lastCreation.alive + 1 <= ImageCap

\* The coordinate pair s lies inside raster R.
InsideRaster(R, s) == LtU32(s[1], ToU32(R.width)) /\ LtU32(s[2], ToU32(R.height))

\* C35 (as claimed): during find_feature every raster coordinate sampled,
\* each feature pixel at each candidate position and each reported top-left,
\* lies inside the raster, in a build with overflow checks and in one without.
C35_FindFeatureSamplesInside ==
  call.task = "find_feature" =>
    \A overflowChecks \in BOOLEAN :
      \A s \in FindFeatureSamples(raster, feature, call.tol, call.mm, overflowChecks) :
        InsideRaster(raster, s)

\* Offsets (dx, dy) a caller adds to a feature's coordinates.
ShiftOffsets == {<<ToU32(1), ToU32(0)>>, <<ToU32(0), ToU32(2)>>, <<<<1, 0>>, ToU32(3)>>}

\* Feature F with d added to every pixel's coordinates.
Shifted(F, d) ==
  [i \in 1..Len(F) |->
     Pixel(AddU32(F[i].x, d[1]).value, AddU32(F[i].y, d[2]).value, F[i].rgba)]

\* The shifted coordinates are u32 values: no addition leaves the range.
ShiftFits(F, d) ==
  \A i \in 1..Len(F) : ~AddU32(F[i].x, d[1]).overflow /\ ~AddU32(F[i].y, d[2]).overflow

\* C36: find_feature and check_feature depend only on the relative positions
\* of the feature's pixels: with the same offset (dx, dy) added to every
\* pixel the result of both is the one computed for the feature itself.
C36_ShiftedFeatureSameResult ==
  \A d \in ShiftOffsets :
    ShiftFits(feature, d) =>
      /\ call.task = "find_feature" =>
           /\ \A oc \in BOOLEAN :
                FindFeatures(raster, Shifted(feature, d), call.tol, call.mm, oc)
                  = FindFeatures(raster, feature, call.tol, call.mm, oc)
           /\ \E oc \in BOOLEAN :
                ret = FindFeatures(raster, Shifted(feature, d), call.tol, call.mm, oc)
      /\ call.task = "check_feature" =>
           /\ \A oc \in BOOLEAN :
                CheckFeature(raster, call.x, call.y, Shifted(feature, d), call.tol, oc)
                  = CheckFeature(raster, call.x, call.y, feature, call.tol, oc)
           /\ \E oc \in BOOLEAN :
                ret = CheckFeature(raster, call.x, call.y, Shifted(feature, d), call.tol, oc)

\* check_feature scored a feature of two pixels, one of them matching,
\* anchored away from the strip's first pixel.
C36_Witness ==
  /\ call.task = "check_feature"
  /\ Len(feature) = 2
  /\ feature[1].x # feature[2].x
  /\ call.x = ToU32(1)
  /\ ret = Ok(<<1, 2>>)
  /\ \A d \in ShiftOffsets : ShiftFits(feature, d)

\* C37: the result of get_features_from_color is a partition of the result
\* of find_rgbas for the same colour: every matching pixel is in exactly one
\* feature, no feature is empty and no other pixel occurs.  Every feature is
\* connected under the radius relation: each member but the first lies
\* within distance 5 (dx * dx + dy * dy <= 25) of a member added before it.
C37_FeaturesPartitionTheMatches ==
  call.task = "get_features_from_color" =>
    /\ ret.status = "ok"
    /\ LET G == ret.value
           found == FindRgbas(raster, call.rgba_number).value
           Occurrences(p) ==
             {s \in (1..Len(G)) \X (1..Len(found)) :
                s[2] <= Len(G[s[1]]) /\ G[s[1]][s[2]] = p}
       IN /\ \A g \in 1..Len(G) : Len(G[g]) \in 1..Len(found)
          /\ \A i \in 1..Len(found) : Cardinality(Occurrences(found[i])) = 1
          /\ \A g \in 1..Len(G) : \A k \in 1..Len(G[g]) :
               /\ \E i \in 1..Len(found) : found[i] = G[g][k]
               /\ k > 1 => \E j \in 1..(k - 1) : WithinRadius(G[g][j], G[g][k])

\* get_features_from_color returned two features or more; one has a member
\* that joined from a distance of more than one cell.
C37_Witness ==
  /\ call.task = "get_features_from_color"
  /\ ret.status = "ok"
  /\ Len(ret.value) >= 2
  /\ \E g \in 1..Len(ret.value) :
       /\ Len(ret.value[g]) >= 2
       /\ \A j \in 1..(Len(ret.value[g]) - 1) :
            LET p == ret.value[g][j]
                q == ret.value[g][Len(ret.value[g])]
            IN (p.x[2] - q.x[2]) * (p.x[2] - q.x[2])
                 + (p.y[2] - q.y[2]) * (p.y[2] - q.y[2]) > 2

\* C38 (as claimed): once close() has returned the dispatcher's receive loop
\* ends, and no key event sent after that reaches a subscriber.  With the
\* queue drained the dispatcher has left its loop or finds the channel
\* without a Sender.
C38_ClosedListenerStops ==
  listener = "closed" =>
    /\ lateDeliveries = 0
    /\ actionQueue = <<>> => (dispatcher = "exited" \/ ~SenderAlive)

\* C39: at most one mouse task operates on the shared MouseSync at any time.
\* A task whose compute starts while another task holds the lock fails at
\* once with "Only one mouse task is allowed at a time": it does not wait and
\* performs no input action.
C39_OneMouseTaskAtATime ==
  /\ Cardinality({t \in MouseTasks : task[t].pc = "holding"}) <= 1
  /\ \A t \in MouseTasks :
       /\ task[t].pc = "holding" => holder = t
       /\ task[t].sawHeld =>
            /\ task[t].pc = "done"
            /\ task[t].result = "Only one mouse task is allowed at a time"
            /\ ~task[t].acted

\* A click was refused while a humanlike move, between two moves of its loop
\* and having moved the pointer, held the lock.
C39_Witness ==
  \E t, u \in MouseTasks :
    /\ task[t].pc = "holding" /\ task[t].kind = "humanlike_move_to" /\ task[t].acted
    /\ hl.at = "loop" /\ pointer # hl.start
    /\ task[u].pc = "done" /\ task[u].kind = "click" /\ task[u].sawHeld
    /\ task[u].result = "Only one mouse task is allowed at a time"

\* C40 (as claimed): humanlike_move_to (and Herox::humanlike_move_mouse)
\* terminates for every pointer position, target and duration, durations
\* under one step of 10 ms included: the chain of calls of itself is finite.
\* No call of the chain is made with the duration and the pointer position
\* its caller had, from which the same call would follow again, and no chain
\* ends in a stack overflow.
C40_HumanlikeMoveTerminates ==
  /\ hx.at # "aborted"
  /\ (hx.at = "enter" /\ hx.recursive) =>
       (hx.duration < hx.callerDuration \/ pointer # hx.callerPointer)
  /\ \A t \in MouseTasks :
       /\ task[t].pc # "aborted"
       /\ (task[t].pc = "holding" /\ task[t].kind = "humanlike_move_to"
             /\ hl.recursive /\ hl.at = "enter") =>
            (hl.duration < hl.callerDuration \/ pointer # hl.callerPointer)

====
